---- MODULE Spec2Model ----
(***************************************************************************)
(* Model of the score-following debug pipeline: the indexed join layer of  *)
(* FailureAnalyzer (binary-search range query, rounded-window context      *)
(* cache), the LogFlattener block reassembler and the two-pass targeted    *)
(* parse of log_parser.parse_log_file.                                     *)
(*                                                                         *)
(* Times are integers counting ticks of 0.02 s, so that round(x, 1) is the *)
(* nearest multiple of 5 ticks and never meets a tie.                      *)
(***************************************************************************)
EXTENDS Integers, Sequences, FiniteSets, TLC

VARIABLES
    \* ---- range query (FailureAnalyzer._get_items_in_time_range) ----
    rq_items,      \* the sorted list handed to the query
    rq_start,      \* start_time of the last query
    rq_end,        \* end_time of the last query
    rq_result,     \* the slice returned by the last query
    rq_pc,         \* "idle" before the first query, "done" after one
    \* ---- LogFlattener ----
    current_input_logs,   \* self.current_input_logs: lines of the open block
    completed_entries,    \* self.completed_entries: the emitted records
    stats,                \* self.stats: the counters the claims read
    warnings,             \* number of logger.warning calls made so far
    fl_pc,                \* "reading" while lines arrive, "done" after end of file
    fl_bad,               \* history: lines read so far one of whose fields fails int() or float()
    last_line,            \* history: the line handled by the last step ("EOF" at the end)
    flushed,              \* history: the last step ran _process_input_logs on a block
    last_block,           \* history: the lines of the block flushed last
    last_emitted,         \* history: the records that flush appended
    \* ---- detail-order comparison of two blocks ----
    pm_block,      \* a block of the trace
    pm_moved,      \* the same block with one row-scoped detail line moved
    pm_out,        \* records _process_input_logs makes of pm_block
    pm_out_moved,  \* records _process_input_logs makes of pm_moved
    pm_pc,         \* "idle", then "done" once both blocks are processed
    \* ---- FailureAnalyzer context extraction ----
    comprehensive_data,             \* self.comprehensive_data: the parsed detail events
    dp_decisions,                   \* self.dp_decisions
    line_to_time_cache,             \* self._line_to_time_cache: line -> (time, line)
    timing_checks_by_time,          \* self._timing_checks_by_time
    cell_decisions_with_time,       \* self._cell_decisions_with_time
    score_competitions_with_time,   \* self._score_competitions_with_time
    time_window_cache,              \* self._time_window_cache: rounded window -> entry
    cx_result,     \* the context returned by the last _extract_comprehensive_context
    cx_time,       \* history: failure_time of the last call
    cx_pitch,      \* history: failure_pitch of the last call
    cx_hit,        \* history: the last call was served from the window cache
    cx_filler,     \* history: rounded window -> (time, pitch) of the call that filled it
    cx_pc,         \* "idle" before the first call, "done" after one
    \* ---- log_parser.parse_log_file, targeted two-pass mode ----
    tp_lines,                \* read_log_lines(log_file): the lines of the file
    failure_context_lines,   \* K, the argument of parse_log_file
    tp_parser,               \* the LogParser of the pass under way
    tp_line_num,             \* line_num of the next line of the pass
    tp_result,               \* result: the first pass's, then the merged one
    tp_pc,         \* "idle", "pass1", "pass2", "returned" or "raised"
    tp_error,      \* the exception parse_log_file raised, "" while none
    \* ---- FailureAnalyzer.analyze ----
    an_lines,        \* the lines of the log the analyzer's parsed_data came from
    an_matches,      \* self.matches
    an_no_matches,   \* self.no_matches
    an_metadata,     \* self.metadata
    an_report,       \* the FailureReport of the last analyze(), <<>> if none
    an_error,        \* the exception the last analyze() raised, "" if none
    an_logged,       \* the messages the last analyze() gave to the logger
    an_runs,         \* history: the number of analyze() calls made
    an_first,        \* history: outcome of the first analyze() call
    an_pc,           \* "idle", "constructed", "returned" or "raised"
    \* ---- DebugWorkflow.run_complete_analysis ----
    wf_skip_execution,   \* the skip_execution argument
    wf_score_time,       \* the score_time argument, NoScoreTime for None
    wf_contexts,         \* the failure contexts analyze() finds in the log
    wf_results,          \* self.results: stage name -> that stage's results
    wf_most_critical,    \* most_critical of _analyze_failures, <<>> before
    wf_focus,            \* focus_context of _generate_ai_analysis, <<>> before
    wf_return,           \* the dictionary returned to the caller, <<>> before
    wf_stages,           \* history: the stages entered so far, in order
    wf_pc                \* "idle", "start", "executed", "parsed", "analyzed",
                         \* "ai_done" or "returned"

rqVars == <<rq_items, rq_start, rq_end, rq_result, rq_pc>>

flVars == <<current_input_logs, completed_entries, stats, warnings, fl_pc, fl_bad,
            last_line, flushed, last_block, last_emitted>>

pmVars == <<pm_block, pm_moved, pm_out, pm_out_moved, pm_pc>>

cxVars == <<comprehensive_data, dp_decisions, line_to_time_cache,
            timing_checks_by_time, cell_decisions_with_time,
            score_competitions_with_time, time_window_cache,
            cx_result, cx_time, cx_pitch, cx_hit, cx_filler, cx_pc>>

tpVars == <<tp_lines, failure_context_lines, tp_parser, tp_line_num,
            tp_result, tp_pc, tp_error>>

anVars == <<an_lines, an_matches, an_no_matches, an_metadata, an_report,
            an_error, an_logged, an_runs, an_first, an_pc>>

wfVars == <<wf_skip_execution, wf_score_time, wf_contexts, wf_results,
            wf_most_critical, wf_focus, wf_return, wf_stages, wf_pc>>

vars == <<rqVars, flVars, pmVars, cxVars, tpVars, anVars, wfVars>>

\* What the steps of one component leave alone.
NotRange == <<flVars, pmVars, cxVars, tpVars, anVars, wfVars>>
NotFlattener == <<rqVars, pmVars, cxVars, tpVars, anVars, wfVars>>
NotPerm == <<rqVars, flVars, cxVars, tpVars, anVars, wfVars>>
NotContext == <<rqVars, flVars, pmVars, tpVars, anVars, wfVars>>
NotTwoPass == <<rqVars, flVars, pmVars, cxVars, anVars, wfVars>>
NotAnalyze == <<rqVars, flVars, pmVars, tpVars, wfVars>>
NotWorkflow == <<rqVars, flVars, pmVars, cxVars, tpVars, anVars>>

(***************************************************************************)
(* Bounds of the model.                                                    *)
(***************************************************************************)
MaxItems == 3          \* longest list handed to the range query
MaxItemTime == 3       \* item times range over 0..MaxItemTime
MaxLines == 5          \* lines of the file the flattener reads
MaxBody == 3           \* lines between INPUT and the outcome in a compared block
MaxTimingChecks == 2   \* timing checks of the analysed log
MaxLogLines == 4       \* lines of the file handed to parse_log_file
MaxK == 1              \* failure_context_lines ranges over 0..MaxK

\* All sequences over S of length at most n.
SeqsUpTo(S, n) == UNION {[1..k -> S] : k \in 0..n}

(***************************************************************************)
(* FailureAnalyzer._get_items_in_time_range: two binary searches over a    *)
(* list sorted by time_field, then the slice between them.  Indices are    *)
(* the code's 0-based ones; sorted_items[mid] is items[mid + 1] here.      *)
(***************************************************************************)
RECURSIVE StartLoop(_, _, _, _, _)
StartLoop(sorted_items, time_field, start_time, left, right) ==
    IF left < right
    THEN LET mid == (left + right) \div 2
         IN IF sorted_items[mid + 1][time_field] < start_time
            THEN StartLoop(sorted_items, time_field, start_time, mid + 1, right)
            ELSE StartLoop(sorted_items, time_field, start_time, left, mid)
    ELSE left

\* EndLoop with the comparison of the second search made strict.
RECURSIVE EndLoop_Strict(_, _, _, _, _)
EndLoop_Strict(sorted_items, time_field, end_time, left, right) ==
    IF left < right
    THEN LET mid == (left + right) \div 2
         IN IF sorted_items[mid + 1][time_field] < end_time
            THEN EndLoop_Strict(sorted_items, time_field, end_time, mid + 1, right)
            ELSE EndLoop_Strict(sorted_items, time_field, end_time, left, mid)
    ELSE left

RECURSIVE EndLoop(_, _, _, _, _)
EndLoop(sorted_items, time_field, end_time, left, right) ==
    IF left < right
    THEN LET mid == (left + right) \div 2
         IN IF sorted_items[mid + 1][time_field] <= end_time
            THEN EndLoop(sorted_items, time_field, end_time, mid + 1, right)
            ELSE EndLoop(sorted_items, time_field, end_time, left, mid)
    ELSE left

get_items_in_time_range(sorted_items, start_time, end_time, time_field) ==
    IF sorted_items = <<>>
    THEN <<>>
    ELSE LET start_idx == StartLoop(sorted_items, time_field, start_time,
                                    0, Len(sorted_items))
             end_idx == EndLoop(sorted_items, time_field, end_time,
                                start_idx, Len(sorted_items))
         IN SubSeq(sorted_items, start_idx + 1, end_idx)

\* A list is sorted non-decreasingly by field f.
IsSortedBy(s, f) == \A i \in 1..(Len(s) - 1) : s[i][f] <= s[i + 1][f]

\* The lists the range query is handed: timing checks sorted by curr_time.
RangeItem == [curr_time : 0..MaxItemTime, timing_pass : BOOLEAN]
RangeLists == {s \in SeqsUpTo(RangeItem, MaxItems) : IsSortedBy(s, "curr_time")}
QueryTimes == (0 - 1)..(MaxItemTime + 1)

(***************************************************************************)
(* LogFlattener.  A log line is a record: tag is the text before the first *)
(* '|', the other fields are the values the line carries.  Each line kind  *)
(* is modelled with the fields named below; the further fields of a kind   *)
(* travel in the same dictionary and take the same path.  Numbers are      *)
(* integers; a value below zero is written with a leading '-'.             *)
(***************************************************************************)
InputLine(c, p, t) == [tag |-> "INPUT", column |-> c, pitch |-> p, perf_time |-> t]
DPLineAt(c, r, t, f) ==
    [tag |-> "DP", column |-> c, row |-> r, pitch |-> 60, perf_time |-> t,
     final_value |-> f]
DPLine(r, f) == DPLineAt(1, r, 75, f)
VRuleLine(r, res) == [tag |-> "VRULE", row |-> r, result |-> res]
TimingLineAt(t, pass) ==
    [tag |-> "TIMING", prev_cell_time |-> t - 25, curr_perf_time |-> t,
     timing_pass |-> pass]
TimingLine(pass) == TimingLineAt(75, pass)
OrnamentLine(p) ==
    [tag |-> "ORNAMENT", pitch |-> p, ornament_type |-> "trill", credit |-> 1]
TestStartLine == [tag |-> "TEST_START", test_case |-> 1]
MatchLine(r, p, t, sc) ==
    [tag |-> "MATCH", row |-> r, pitch |-> p, perf_time |-> t, score |-> sc]
NoMatchLine(p, t) == [tag |-> "NO_MATCH", pitch |-> p, perf_time |-> t]
\* A DP line whose text for one numeric field (such as "-" or "1.2.3") passes
\* the character class of the regex and fails int() or float().
BadDPLine(r, field) ==
    [tag |-> "DP", row |-> r, final_value |-> 0, bad_field |-> field]

\* The explanation lines.  MATCH_EXPLAIN and NO_MATCH_EXPLAIN are written
\* with or without a trailing |source_line:N; the text of a line is kept as
\* the tuple of its values.
MatchExplainLine(with_source_line) ==
    [tag |-> "MATCH_EXPLAIN", pitch |-> 60, reason |-> "matched",
     source_line |-> with_source_line]
NoMatchExplainLine(with_source_line) ==
    [tag |-> "NO_MATCH_EXPLAIN", pitch |-> 60, reason |-> "extra",
     source_line |-> with_source_line]
DecisionExplainLine(r) ==
    [tag |-> "DECISION_EXPLAIN", row |-> r, pitch |-> 60, reasoning |-> "won"]
TimingExplainLine(pass) ==
    [tag |-> "TIMING_EXPLAIN", pitch |-> 60, pass |-> pass, reason |-> "ioi"]
OrnamentExplainLine(type) ==
    [tag |-> "ORNAMENT_EXPLAIN", pitch |-> 60, type |-> type]

\* LOG_PATTERNS of debug/src/config.py, in declaration order.
PatternOrder ==
    <<"dp_entry", "match_found", "no_match", "test_start", "input_event",
      "vertical_rule", "timing_check", "ornament_processing",
      "match_explanation", "no_match_explanation", "decision_explanation",
      "timing_explanation", "ornament_explanation">>

\* pattern.match(line): the prefix and the character classes of each regex.
\* match_found ends in score:([\d.]+), which admits no '-'.
PatternMatches(log_type, line) ==
    CASE log_type = "dp_entry" -> line.tag = "DP" /\ line.row >= 0
      [] log_type = "match_found" ->
            line.tag = "MATCH" /\ line.row >= 0 /\ line.score >= 0
      [] log_type = "no_match" -> line.tag = "NO_MATCH"
      [] log_type = "test_start" -> line.tag = "TEST_START"
      [] log_type = "input_event" -> line.tag = "INPUT"
      [] log_type = "vertical_rule" -> line.tag = "VRULE" /\ line.row >= 0
      [] log_type = "timing_check" -> line.tag = "TIMING"
      [] log_type = "ornament_processing" -> line.tag = "ORNAMENT"
      [] log_type = "match_explanation" ->
            line.tag = "MATCH_EXPLAIN" /\ line.source_line
      [] log_type = "no_match_explanation" ->
            line.tag = "NO_MATCH_EXPLAIN" /\ line.source_line
      [] log_type = "decision_explanation" ->
            line.tag = "DECISION_EXPLAIN" /\ line.row >= 0
      [] log_type = "timing_explanation" -> line.tag = "TIMING_EXPLAIN"
      [] log_type = "ornament_explanation" -> line.tag = "ORNAMENT_EXPLAIN"
      [] OTHER -> FALSE

\* LogFlattener._extract_data: the dictionary built from the regex groups.
extract_data(log_type, line) ==
    CASE log_type = "input_event" ->
            [input_column |-> line.column, input_pitch |-> line.pitch,
             input_perf_time |-> line.perf_time]
      [] log_type = "dp_entry" ->
            [dp_row |-> line.row, dp_final_value |-> line.final_value]
      [] log_type = "vertical_rule" ->
            [row |-> line.row, vrule_result |-> line.result]
      [] log_type = "timing_check" ->
            [timing_prev_cell_time |-> line.prev_cell_time,
             timing_curr_perf_time |-> line.curr_perf_time,
             timing_pass |-> line.timing_pass]
      [] log_type = "decision_explanation" ->
            [decision_explanation |->
                 <<"Row", line.row, "pitch", line.pitch, line.reasoning>>]
      [] log_type = "timing_explanation" ->
            [timing_explanation |->
                 <<"Pitch", line.pitch, "timing", line.reason, line.pass>>]
      [] log_type = "ornament_explanation" ->
            [ornament_explanation |->
                 <<"Pitch", line.pitch, "ornament", line.type>>]
      [] OTHER -> <<>>

\* The patterns of MATCH_EXPLAIN and NO_MATCH_EXPLAIN have six groups and
\* _extract_data unpacks them into five names: ValueError.
UnpackRaises(log_type) ==
    log_type \in {"match_explanation", "no_match_explanation"}

\* _extract_data raises ValueError on the line.
ExtractRaises(line) ==
    \/ /\ \E i \in DOMAIN PatternOrder : PatternMatches(PatternOrder[i], line)
       /\ "bad_field" \in DOMAIN line
    \/ \E i \in DOMAIN PatternOrder :
          PatternMatches(PatternOrder[i], line) /\ UnpackRaises(PatternOrder[i])

NoEntry == [log_type |-> "none", data |-> <<>>]

\* LogFlattener._parse_single_line: (log_type, data), or NoEntry for None.
parse_single_line(line) ==
    IF line.tag = "MATCH" /\ PatternMatches("match_found", line)
    THEN [log_type |-> "match_found",
          data |-> [match_row |-> line.row, match_pitch |-> line.pitch,
                    match_perf_time |-> line.perf_time,
                    match_score |-> line.score]]
    ELSE IF line.tag = "NO_MATCH" /\ PatternMatches("no_match", line)
    THEN [log_type |-> "no_match",
          data |-> [no_match_pitch |-> line.pitch,
                    no_match_perf_time |-> line.perf_time]]
    ELSE LET hits == {i \in DOMAIN PatternOrder : PatternMatches(PatternOrder[i], line)}
         IN IF hits = {}
            THEN NoEntry
            ELSE LET first == CHOOSE i \in hits : \A j \in hits : i <= j
                 IN [log_type |-> PatternOrder[first],
                     data |-> extract_data(PatternOrder[first], line)]

\* The detail kinds _process_input_logs stores (lines 300-304).
DetailTypes ==
    {"vertical_rule", "timing_check", "match_explanation",
     "no_match_explanation", "decision_explanation", "timing_explanation",
     "ornament_explanation"}

\* A Python dict as a function; d[k] = v.
Put(d, k, v) == [x \in (DOMAIN d) \cup {k} |-> IF x = k THEN v ELSE d[x]]

\* FlattenedLogEntry(): the dataclass defaults of the modelled columns;
\* timing_prev_cell_time: float = -1.0, in ticks.  The empty string of an
\* explanation column is the empty tuple of values.
FlattenedLogEntry ==
    [input_column |-> 0, input_pitch |-> 0, input_perf_time |-> 0,
     match_row |-> 0, match_pitch |-> 0, match_perf_time |-> 0, match_score |-> 0,
     no_match_pitch |-> 0, no_match_perf_time |-> 0, result_type |-> "",
     match_explanation |-> <<>>, no_match_explanation |-> <<>>,
     decision_explanation |-> <<>>, timing_explanation |-> <<>>,
     ornament_explanation |-> <<>>,
     vrule_result |-> 0,
     timing_prev_cell_time |-> 0 - 50, timing_curr_perf_time |-> 0,
     timing_pass |-> "",
     dp_row |-> 0, dp_final_value |-> 0]

\* for key, value in data.items(): if hasattr(entry, key): setattr(...)
ApplyData(entry, data) ==
    [f \in DOMAIN entry |-> IF f \in DOMAIN data THEN data[f] ELSE entry[f]]

\* Index of row in dp_entries (a list of [row, row_data] in insertion
\* order, as the dict iterates), 0 when the row is not a key.
RowIndex(dp_entries, row) ==
    IF \E i \in DOMAIN dp_entries : dp_entries[i].row = row
    THEN CHOOSE i \in DOMAIN dp_entries : dp_entries[i].row = row
    ELSE 0

\* dp_entries[row][log_type] = data, creating dp_entries[row] when missing.
\* A variant that keeps the value already stored (first write wins).
StoreRowData_FirstWins(dp_entries, row, log_type, data) ==
    LET i == RowIndex(dp_entries, row)
    IN IF i = 0
       THEN Append(dp_entries, [row |-> row, row_data |-> Put(<<>>, log_type, data)])
       ELSE IF log_type \in DOMAIN dp_entries[i].row_data
            THEN dp_entries
            ELSE [dp_entries EXCEPT ![i].row_data = Put(@, log_type, data)]

\* A variant that appends a new element for every line (a list where the code
\* has a dict).
StoreRowData_NoMerge(dp_entries, row, log_type, data) ==
    Append(dp_entries, [row |-> row, row_data |-> Put(<<>>, log_type, data)])

StoreRowData(dp_entries, row, log_type, data) ==
    LET i == RowIndex(dp_entries, row)
    IN IF i = 0
       THEN Append(dp_entries, [row |-> row, row_data |-> Put(<<>>, log_type, data)])
       ELSE [dp_entries EXCEPT ![i].row_data = Put(@, log_type, data)]

\* A variant that keeps the shared data stored first.
StoreSharedData_FirstWins(input_data, log_type, data) ==
    IF log_type \in DOMAIN input_data THEN input_data ELSE Put(input_data, log_type, data)

\* input_data[log_type] = data
StoreSharedData(input_data, log_type, data) == Put(input_data, log_type, data)

\* The first loop of _process_input_logs (lines 286-315), one line.
CollectLine(acc, line) ==
    LET log_entry == parse_single_line(line)
        log_type == log_entry.log_type
        data == log_entry.data
    IN IF log_type = "none"
       THEN acc
       ELSE IF log_type = "input_event"
       THEN [acc EXCEPT !.input_data = data]
       ELSE IF log_type = "dp_entry"
       THEN [acc EXCEPT !.dp_entries = StoreRowData(@, data.dp_row, "dp", data)]
       ELSE IF log_type \in DetailTypes
       THEN IF "row" \in DOMAIN data
            THEN [acc EXCEPT !.dp_entries = StoreRowData(@, data.row, log_type, data)]
            ELSE [acc EXCEPT !.input_data = StoreSharedData(@, log_type, data)]
       ELSE IF log_type \in {"match_found", "no_match"}
       THEN [acc EXCEPT !.result_data = [type |-> log_type, data |-> data]]
       ELSE acc

RECURSIVE CollectLines(_, _)
CollectLines(acc, logs) ==
    IF logs = <<>> THEN acc ELSE CollectLines(CollectLine(acc, Head(logs)), Tail(logs))

\* Lines 324-333: a value of input_data that is a dict (stored under its
\* log type) is applied field by field, a scalar under its own key.  The
\* kinds write disjoint columns, so the iteration order of the dict does
\* not show.
ApplyInputData(entry, input_data) ==
    [f \in DOMAIN entry |->
        IF \E k \in (DOMAIN input_data) \cap DetailTypes : f \in DOMAIN input_data[k]
        THEN LET k == CHOOSE k \in (DOMAIN input_data) \cap DetailTypes :
                          f \in DOMAIN input_data[k]
             IN input_data[k][f]
        ELSE IF f \in (DOMAIN input_data) \ DetailTypes
        THEN input_data[f]
        ELSE entry[f]]

\* Lines 340-345: the row's detail dictionaries, each applied whole.
ApplyRowData(entry, row_data) ==
    [f \in DOMAIN entry |->
        IF \E k \in (DOMAIN row_data) \ {"dp"} : f \in DOMAIN row_data[k]
        THEN LET k == CHOOSE k \in (DOMAIN row_data) \ {"dp"} : f \in DOMAIN row_data[k]
             IN row_data[k][f]
        ELSE entry[f]]

\* Lines 347-358.
ApplyResultData(entry, result_data) ==
    IF DOMAIN result_data = {}
    THEN entry
    ELSE IF result_data.type = "match_found"
    THEN ApplyData([entry EXCEPT !.result_type = "match"], result_data.data)
    ELSE IF result_data.type = "no_match"
    THEN ApplyData([entry EXCEPT !.result_type = "no_match"], result_data.data)
    ELSE entry

\* Lines 322-358: the record of one row that has a DP line.
MakeEntry(input_data, row_data, result_data) ==
    ApplyResultData(
        ApplyRowData(
            ApplyData(ApplyInputData(FlattenedLogEntry, input_data), row_data["dp"]),
            row_data),
        result_data)

\* The second loop (lines 318-360): rows in the order dp_entries holds them,
\* a row without its DP line skipped.
RECURSIVE CreateEntries(_, _, _)
CreateEntries(input_data, dp_entries, result_data) ==
    IF dp_entries = <<>>
    THEN <<>>
    ELSE LET rest == CreateEntries(input_data, Tail(dp_entries), result_data)
             row_data == Head(dp_entries).row_data
         IN IF "dp" \notin DOMAIN row_data
            THEN rest
            ELSE <<MakeEntry(input_data, row_data, result_data)>> \o rest

\* _process_input_logs raises: some line of the block fails a coercion in
\* the first loop, before any record is appended.
ProcessRaises(logs) == \E i \in DOMAIN logs : ExtractRaises(logs[i])

\* LogFlattener._process_input_logs: the records of one block.
process_input_logs(logs) ==
    LET acc == CollectLines([input_data |-> <<>>, dp_entries |-> <<>>,
                             result_data |-> <<>>], logs)
    IN CreateEntries(acc.input_data, acc.dp_entries, acc.result_data)

(***************************************************************************)
(* FailureAnalyzer: the indices built at construction and the context      *)
(* extracted around one failure.  A Python tuple t is a TLA+ tuple, t[0]   *)
(* being t[1] here.  The detailed_* / *_analysis entries of a context are  *)
(* functions of the lists stored beside them in the same section and are   *)
(* not carried.                                                            *)
(***************************************************************************)
\* time_window = 1.0 second, in ticks.
time_window == 50

\* round(x, 1): the nearest multiple of 0.1 s = 5 ticks.
Round1(x) == ((x + 2) \div 5) * 5

\* _build_performance_caches, step 1: input events first, then DP decisions
\* for the lines not yet mapped.
RECURSIVE AddInputEvents(_, _)
AddInputEvents(cache, events) ==
    IF events = <<>>
    THEN cache
    ELSE LET event == Head(events)
             line_num == event.line_number
         IN AddInputEvents(
                IF line_num \notin DOMAIN cache \/ line_num > cache[line_num][2]
                THEN Put(cache, line_num, <<event.time, line_num>>)
                ELSE cache,
                Tail(events))

RECURSIVE AddDPDecisions(_, _)
AddDPDecisions(cache, decisions) ==
    IF decisions = <<>>
    THEN cache
    ELSE LET decision == Head(decisions)
             line_num == decision.line_number
         IN AddDPDecisions(
                IF line_num \notin DOMAIN cache
                THEN Put(cache, line_num, <<decision.time, line_num>>)
                ELSE cache,
                Tail(decisions))

BuildLineToTime(data, decisions) ==
    AddDPDecisions(AddInputEvents(<<>>, data.input_events), decisions)

\* sorted(items, key = field): a stable sort.
RECURSIVE InsertSorted(_, _, _)
InsertSorted(sorted_items, x, field) ==
    IF sorted_items = <<>>
    THEN <<x>>
    ELSE LET last == sorted_items[Len(sorted_items)]
         IN IF last[field] <= x[field]
            THEN Append(sorted_items, x)
            ELSE Append(InsertSorted(SubSeq(sorted_items, 1, Len(sorted_items) - 1),
                                     x, field), last)

RECURSIVE SortedBy(_, _)
SortedBy(items, field) ==
    IF items = <<>>
    THEN <<>>
    ELSE InsertSorted(SortedBy(SubSeq(items, 1, Len(items) - 1), field),
                      items[Len(items)], field)

\* Events copied with '_cached_time', those whose line the table lacks
\* left out, then sorted by that time.
RECURSIVE WithCachedTime(_, _)
WithCachedTime(events, cache) ==
    IF events = <<>>
    THEN <<>>
    ELSE LET e == Head(events)
             rest == WithCachedTime(Tail(events), cache)
         IN IF e.line_number \in DOMAIN cache
            THEN <<Put(e, "cached_time", cache[e.line_number][1])>> \o rest
            ELSE rest

BuildWithTime(events, cache) == SortedBy(WithCachedTime(events, cache), "cached_time")

\* [x for x in events if x.get('pitch') == failure_pitch]
OfPitch(events, failure_pitch) ==
    SelectSeq(events, LAMBDA e : e.pitch = failure_pitch)

\* The line -> time loop over vertical rules, matrix states, array
\* neighborhoods and window movements.
AroundTime(events, cache, start_time, end_time) ==
    SelectSeq(events,
              LAMBDA e : /\ e.line_number \in DOMAIN cache
                         /\ start_time <= cache[e.line_number][1]
                         /\ cache[e.line_number][1] <= end_time)

FieldOf(events, field) == [i \in DOMAIN events |-> events[i][field]]

RECURSIVE SumOf(_, _)
SumOf(events, field) ==
    IF events = <<>> THEN 0 ELSE Head(events)[field] + SumOf(Tail(events), field)

\* The sections both the fresh path and the cached path build from lists.
MatchTypeSection(relevant_match_types) ==
    [classifications |-> relevant_match_types]

HRuleSection(relevant_h_rules) ==
    [calculations |-> relevant_h_rules,
     timing_failures |-> SelectSeq(relevant_h_rules, LAMBDA h : ~h.timing_pass)]

VRuleSection(relevant_v_rules) == [calculations |-> relevant_v_rules]

OrnamentSection(relevant_ornaments) ==
    [ornament_types |-> FieldOf(relevant_ornaments, "ornament_type"),
     credit_applied |-> SumOf(relevant_ornaments, "credit"),
     has_ornaments |-> Len(relevant_ornaments) > 0]

\* _extract_comprehensive_context past the cache lookup: the lists selected
\* around (failure_time, failure_pitch).
RelevantLists(failure_time, failure_pitch) ==
    LET start_time == failure_time - time_window
        end_time == failure_time + time_window
    IN [timing |-> get_items_in_time_range(timing_checks_by_time,
                                           start_time, end_time, "curr_time"),
        match_types |-> OfPitch(comprehensive_data.match_type_analyses, failure_pitch),
        h_rules |-> OfPitch(comprehensive_data.horizontal_rules, failure_pitch),
        decisions |-> get_items_in_time_range(cell_decisions_with_time,
                                              start_time, end_time, "cached_time"),
        scores |-> get_items_in_time_range(score_competitions_with_time,
                                           start_time, end_time, "cached_time"),
        v_rules |-> AroundTime(comprehensive_data.vertical_rules,
                               line_to_time_cache, start_time, end_time),
        matrices |-> AroundTime(comprehensive_data.matrix_states,
                                line_to_time_cache, start_time, end_time),
        arrays |-> AroundTime(comprehensive_data.array_neighborhoods,
                              line_to_time_cache, start_time, end_time),
        windows |-> AroundTime(comprehensive_data.window_movements,
                               line_to_time_cache, start_time, end_time),
        ornaments |-> OfPitch(comprehensive_data.ornament_processings, failure_pitch)]

\* The context dictionary built from those lists.
BuildContext(r) ==
    LET failed_checks == SelectSeq(r.timing, LAMBDA t : ~t.timing_pass)
        passed_checks == SelectSeq(r.timing, LAMBDA t : t.timing_pass)
    IN [timing_constraints |->
            [failed_checks |-> failed_checks,
             passed_checks |-> passed_checks,
             total_checks |-> Len(r.timing)],
        match_type_analysis |-> MatchTypeSection(r.match_types),
        horizontal_rule_analysis |-> HRuleSection(r.h_rules),
        vertical_rule_analysis |-> VRuleSection(r.v_rules),
        cell_decisions |->
            [decisions |-> r.decisions,
             update_patterns |-> SelectSeq(r.decisions, LAMBDA d : d.updated)],
        matrix_state |-> [states |-> r.matrices],
        array_neighborhoods |-> [neighborhoods |-> r.arrays],
        window_movements |-> [movements |-> r.windows],
        score_competition |->
            [score_progression |-> FieldOf(r.scores, "current_score"),
             confidence_levels |-> FieldOf(r.scores, "confidence"),
             beats_top_score |-> \E i \in DOMAIN r.scores : r.scores[i].beats_top],
        ornament_context |-> OrnamentSection(r.ornaments),
        algorithmic_insights |->
            [likely_timing_issue |-> Len(failed_checks) > 0,
             ornament_interference |-> Len(r.ornaments) > 0,
             score_competition_active |-> Len(r.scores) > 0,
             decision_complexity |->
                 Cardinality({r.decisions[i].reason : i \in DOMAIN r.decisions})]]

FreshContext(failure_time, failure_pitch) ==
    BuildContext(RelevantLists(failure_time, failure_pitch))

\* The entry stored in _time_window_cache for the window.
CacheEntry(r, context) ==
    [timing_constraints |-> context.timing_constraints,
     all_match_types |-> r.match_types,
     all_h_rules |-> r.h_rules,
     all_v_rules |-> r.v_rules,
     all_ornaments |-> r.ornaments,
     cell_decisions |-> context.cell_decisions,
     score_competition |-> context.score_competition,
     matrix_state |-> context.matrix_state,
     array_neighborhoods |-> context.array_neighborhoods,
     window_movements |-> context.window_movements,
     algorithmic_insights |-> context.algorithmic_insights]

\* A variant that leaves the ornaments out of a context served from the
\* window cache.
filter_cached_context_without_ornaments(cached_context, failure_pitch) ==
    [timing_constraints |-> cached_context.timing_constraints,
     match_type_analysis |->
         MatchTypeSection(OfPitch(cached_context.all_match_types, failure_pitch)),
     horizontal_rule_analysis |->
         HRuleSection(OfPitch(cached_context.all_h_rules, failure_pitch)),
     vertical_rule_analysis |-> VRuleSection(cached_context.all_v_rules),
     cell_decisions |-> cached_context.cell_decisions,
     score_competition |-> cached_context.score_competition,
     matrix_state |-> cached_context.matrix_state,
     array_neighborhoods |-> cached_context.array_neighborhoods,
     window_movements |-> cached_context.window_movements,
     ornament_context |-> OrnamentSection(<<>>),
     algorithmic_insights |-> cached_context.algorithmic_insights]

\* FailureAnalyzer._filter_cached_context_for_pitch
filter_cached_context_for_pitch(cached_context, failure_pitch) ==
    [timing_constraints |-> cached_context.timing_constraints,
     match_type_analysis |->
         MatchTypeSection(OfPitch(cached_context.all_match_types, failure_pitch)),
     horizontal_rule_analysis |->
         HRuleSection(OfPitch(cached_context.all_h_rules, failure_pitch)),
     vertical_rule_analysis |-> VRuleSection(cached_context.all_v_rules),
     cell_decisions |-> cached_context.cell_decisions,
     score_competition |-> cached_context.score_competition,
     matrix_state |-> cached_context.matrix_state,
     array_neighborhoods |-> cached_context.array_neighborhoods,
     window_movements |-> cached_context.window_movements,
     ornament_context |->
         OrnamentSection(OfPitch(cached_context.all_ornaments, failure_pitch)),
     algorithmic_insights |-> cached_context.algorithmic_insights]

\* cache_key = (round(start_time, 1), round(end_time, 1))
CacheKey(failure_time) ==
    <<Round1(failure_time - time_window), Round1(failure_time + time_window)>>

NoData ==
    [input_events |-> <<>>, timing_checks |-> <<>>, match_type_analyses |-> <<>>,
     horizontal_rules |-> <<>>, cell_decisions |-> <<>>, score_competitions |-> <<>>,
     vertical_rules |-> <<>>, matrix_states |-> <<>>, array_neighborhoods |-> <<>>,
     window_movements |-> <<>>, ornament_processings |-> <<>>]

\* FailureAnalyzer.__init__ over the parsed data: the indices are built and
\* the window cache is empty.
Constructed(data, decisions) ==
    /\ comprehensive_data = data
    /\ dp_decisions = decisions
    /\ line_to_time_cache = BuildLineToTime(data, decisions)
    /\ timing_checks_by_time = SortedBy(data.timing_checks, "curr_time")
    /\ cell_decisions_with_time =
           BuildWithTime(data.cell_decisions, BuildLineToTime(data, decisions))
    /\ score_competitions_with_time =
           BuildWithTime(data.score_competitions, BuildLineToTime(data, decisions))
    /\ time_window_cache = <<>>
    /\ cx_result = <<>>
    /\ cx_time = 0
    /\ cx_pitch = 0
    /\ cx_hit = FALSE
    /\ cx_filler = <<>>
    /\ cx_pc = "idle"

ContextIdle == Constructed(NoData, <<>>)

(***************************************************************************)
(* log_parser.py: LogParser and the module-level parse_log_file in its     *)
(* targeted mode.  parse_log_line is the one of debug/src/utils.py, which  *)
(* fills the fields _parse_line reads; it tries LOG_PATTERNS in            *)
(* declaration order.  A line no pattern matches gives None.               *)
(***************************************************************************)
OtherLine == [tag |-> "OTHER"]

ParsedNone == [type |-> "none"]

parse_log_line(line) ==
    LET hits == {i \in DOMAIN PatternOrder : PatternMatches(PatternOrder[i], line)}
    IN IF hits = {}
       THEN ParsedNone
       ELSE LET first == CHOOSE i \in hits : \A j \in hits : i <= j
                pattern_name == PatternOrder[first]
            IN CASE pattern_name = "dp_entry" ->
                      [type |-> pattern_name, column |-> line.column,
                       row |-> line.row, pitch |-> line.pitch,
                       time |-> line.perf_time, final_value |-> line.final_value]
                 [] pattern_name = "match_found" ->
                      [type |-> pattern_name, row |-> line.row, pitch |-> line.pitch,
                       time |-> line.perf_time, score |-> line.score]
                 [] pattern_name = "no_match" ->
                      [type |-> pattern_name, pitch |-> line.pitch,
                       time |-> line.perf_time]
                 [] pattern_name = "test_start" ->
                      [type |-> pattern_name, test_case |-> line.test_case]
                 [] pattern_name = "input_event" ->
                      [type |-> pattern_name, column |-> line.column,
                       pitch |-> line.pitch, time |-> line.perf_time]
                 [] pattern_name = "vertical_rule" ->
                      [type |-> pattern_name, row |-> line.row, result |-> line.result]
                 [] pattern_name = "timing_check" ->
                      [type |-> pattern_name, curr_time |-> line.curr_perf_time,
                       timing_pass |-> (line.timing_pass = "t")]
                 [] pattern_name = "ornament_processing" ->
                      [type |-> pattern_name, pitch |-> line.pitch,
                       ornament_type |-> line.ornament_type,
                       credit |-> line.credit]

\* LogParser(log_file, parse_comprehensive); target_lines is None until set.
LogParser(parse_comprehensive) ==
    [parse_comprehensive |-> parse_comprehensive,
     targeted |-> FALSE, target_lines |-> {},
     dp_decisions |-> <<>>, matches |-> <<>>, no_matches |-> <<>>,
     test_metadata |-> <<>>,
     input_events |-> <<>>, vertical_rules |-> <<>>, timing_checks |-> <<>>,
     ornament_processings |-> <<>>]

\* A variant that parses comprehensive entries on every line.
Comprehensive_Everywhere(p, line_num) == p.parse_comprehensive

\* self.parse_comprehensive and
\*     (self.target_lines is None or line_num in self.target_lines)
Comprehensive(p, line_num) ==
    p.parse_comprehensive /\ (~p.targeted \/ line_num \in p.target_lines)

\* The parsed fields with the number of the line, as the dataclasses hold them.
EventOf(parsed, line_num) ==
    [f \in (DOMAIN parsed \ {"type"}) \cup {"line_number"} |->
        IF f = "line_number" THEN line_num ELSE parsed[f]]

\* LogParser._parse_line after parsed = parse_log_line(line): the branch on
\* parsed['type'] that appends the event to its list.
StoreParsed(p, parsed, event, line_num) ==
    IF parsed = ParsedNone
    THEN p
    ELSE CASE parsed.type = "dp_entry" ->
                [p EXCEPT !.dp_decisions = Append(@, event)]
           [] parsed.type = "match_found" ->
                [p EXCEPT !.matches = Append(@, event)]
           [] parsed.type = "no_match" ->
                [p EXCEPT !.no_matches = Append(@, event)]
           [] parsed.type = "test_start" ->
                [p EXCEPT !.test_metadata =
                     [test_case |-> parsed.test_case, start_line |-> line_num]]
           [] parsed.type = "input_event" /\ Comprehensive(p, line_num) ->
                [p EXCEPT !.input_events = Append(@, event)]
           [] parsed.type = "vertical_rule" /\ Comprehensive(p, line_num) ->
                [p EXCEPT !.vertical_rules = Append(@, event)]
           [] parsed.type = "timing_check" /\ Comprehensive(p, line_num) ->
                [p EXCEPT !.timing_checks = Append(@, event)]
           [] parsed.type = "ornament_processing" /\ Comprehensive(p, line_num) ->
                [p EXCEPT !.ornament_processings = Append(@, event)]
           [] OTHER -> p

\* The event _parse_line builds from the parsed fields.
EventOfParsed(p, parsed, line_num) ==
    StoreParsed(p, parsed, EventOf(parsed, line_num), line_num)

\* LogParser._parse_line
parse_line(p, line, line_num) == EventOfParsed(p, parse_log_line(line), line_num)

\* LogParser._generate_summary raises without DP decisions.
SummaryRaises(p) == p.dp_decisions = <<>>

\* The dictionary LogParser.parse returns.
ParseResult(p) ==
    [metadata |-> [test_info |-> p.test_metadata],
     dp_decisions |-> p.dp_decisions,
     matches |-> p.matches,
     no_matches |-> p.no_matches,
     comprehensive_data |->
         [input_events |-> p.input_events,
          vertical_rules |-> p.vertical_rules,
          timing_checks |-> p.timing_checks,
          ornament_processings |-> p.ornament_processings]]

\* A variant that makes up a window at the head of the file when the first
\* pass found no failure.
FailureLines_Fabricated(no_matches, K) ==
    IF no_matches = <<>>
    THEN 1..(1 + K)
    ELSE UNION {{no_matches[i].line_number + offset : offset \in (0 - K)..K} :
                i \in DOMAIN no_matches}

\* failure_lines: line_num + offset for offset in range(-K, K + 1), for
\* every no-match of the first pass.
FailureLines(no_matches, K) ==
    UNION {{no_matches[i].line_number + offset : offset \in (0 - K)..K} :
           i \in DOMAIN no_matches}

\* total_entries = sum(len(v) for v in comprehensive_data.values())
TotalEntries(data) ==
    Len(data.input_events) + Len(data.vertical_rules) + Len(data.timing_checks)
    + Len(data.ornament_processings)

\* LogParser.parse over a whole file, the loop run to its end.
RECURSIVE ParseFrom(_, _, _)
ParseFrom(p, lines, line_num) ==
    IF line_num > Len(lines)
    THEN p
    ELSE ParseFrom(parse_line(p, lines[line_num], line_num), lines, line_num + 1)

\* parse_log_file(log_file, parse_comprehensive = True): one full pass.
FullParse(lines) == ParseResult(ParseFrom(LogParser(TRUE), lines, 1))

TwoPassIdle ==
    /\ tp_lines = <<>>
    /\ failure_context_lines = 0
    /\ tp_parser = LogParser(FALSE)
    /\ tp_line_num = 1
    /\ tp_result = <<>>
    /\ tp_pc = "idle"
    /\ tp_error = ""

(***************************************************************************)
(* FailureAnalyzer.analyze.  Scores (final_value, score) count half        *)
(* points, times count ticks.  Of a timing analysis the entries carried    *)
(* are those below; average_ioi and ioi_variance are functions of the same *)
(* decision times.                                                         *)
(***************************************************************************)
\* FAILURE_CONTEXT_WINDOW of config.py
FAILURE_CONTEXT_WINDOW == 5

\* if prev_score - curr_score > 2: two points, in half points.
score_drop_threshold == 4

\* items[-count:] if len(items) >= count else items
LastN(items, count) ==
    IF Len(items) >= count
    THEN SubSeq(items, Len(items) - count + 1, Len(items))
    ELSE items

SeqMax(values) == CHOOSE v \in {values[i] : i \in DOMAIN values} :
                      \A i \in DOMAIN values : values[i] <= v
SeqMin(values) == CHOOSE v \in {values[i] : i \in DOMAIN values} :
                      \A i \in DOMAIN values : v <= values[i]

\* FailureAnalyzer._get_context_before_time: the sort key is
\* (time, column, row); three stable sorts, least significant key first.
get_context_before_time(decisions, target_time, count) ==
    LET before_time == SelectSeq(decisions, LAMBDA d : d.time <= target_time)
    IN LastN(SortedBy(SortedBy(SortedBy(before_time, "row"), "column"), "time"),
             count)

\* FailureAnalyzer._get_matches_before_time
get_matches_before_time(all_matches, target_time, count) ==
    LET before_time == SelectSeq(all_matches, LAMBDA m : m.time < target_time)
    IN LastN(SortedBy(before_time, "time"), count)

\* _analyze_timing_patterns raises ValueError with fewer than 2 decisions.
TimingPatternsRaise(decisions) == Len(decisions) < 2

\* FailureAnalyzer._analyze_timing_patterns, for at least 2 decisions.
analyze_timing_patterns(decisions, failure_time) ==
    LET times == FieldOf(decisions, "time")
        inter_onset_intervals ==
            [i \in 1..(Len(times) - 1) |-> times[i + 1] - times[i]]
        max_gap == SeqMax(inter_onset_intervals)
        time_to_failure == failure_time - SeqMax(times)
    IN [decision_count |-> Len(decisions),
        time_span |-> SeqMax(times) - SeqMin(times),
        max_gap |-> max_gap,
        min_gap |-> SeqMin(inter_onset_intervals),
        time_to_failure |-> time_to_failure,
        issues |-> (IF max_gap > 50 THEN <<"Large timing gap">> ELSE <<>>)
                   \o (IF time_to_failure > 25
                       THEN <<"Long delay before failure">> ELSE <<>>)]

\* FailureContext(...); comprehensive_context is None (<<>>) unless given.
FailureContext(failure_type, failure_time, failure_pitch, context_decisions, all_matches, line_number, comprehensive_context) ==
    [failure_type |-> failure_type,
     failure_time |-> failure_time,
     failure_pitch |-> failure_pitch,
     context_decisions |-> context_decisions,
     preceding_matches |-> get_matches_before_time(all_matches, failure_time, 3),
     score_progression |-> FieldOf(context_decisions, "final_value"),
     timing_analysis |-> analyze_timing_patterns(context_decisions, failure_time),
     line_number |-> line_number,
     comprehensive_context |-> comprehensive_context]

\* _extract_comprehensive_context over a given window cache: the context
\* returned and the cache left behind.
extract_comprehensive_context(cache, failure_time, failure_pitch) ==
    LET cache_key == CacheKey(failure_time)
        r == RelevantLists(failure_time, failure_pitch)
        context == BuildContext(r)
    IN IF cache_key \in DOMAIN cache
       THEN [context |-> filter_cached_context_for_pitch(cache[cache_key],
                                                         failure_pitch),
             cache |-> cache]
       ELSE [context |-> context,
             cache |-> Put(cache, cache_key, CacheEntry(r, context))]

\* The loop of analyze() over self.no_matches, with the state it threads:
\* the contexts so far, the window cache and the exception raised, if any.
RECURSIVE AnalyzeNoMatches(_, _, _)
AnalyzeNoMatches(acc, todo, all_matches) ==
    IF todo = <<>> \/ acc.error # ""
    THEN acc
    ELSE LET no_match == Head(todo)
             context_decisions ==
                 get_context_before_time(dp_decisions, no_match.time,
                                         FAILURE_CONTEXT_WINDOW)
             extracted == extract_comprehensive_context(acc.cache, no_match.time,
                                                        no_match.pitch)
         IN IF context_decisions = <<>>
            THEN AnalyzeNoMatches(acc, Tail(todo), all_matches)
            ELSE IF TimingPatternsRaise(context_decisions)
            THEN [acc EXCEPT !.error = "Cannot analyze timing patterns"]
            ELSE IF DOMAIN extracted.context = {}
            THEN [acc EXCEPT !.error = "Failed to extract comprehensive context",
                             !.cache = extracted.cache]
            ELSE AnalyzeNoMatches(
                     [acc EXCEPT !.cache = extracted.cache,
                                 !.contexts = Append(@,
                                     FailureContext("no_match", no_match.time,
                                         no_match.pitch, context_decisions,
                                         all_matches, no_match.line_number,
                                         extracted.context))],
                     Tail(todo), all_matches)

\* FailureAnalyzer._analyze_potential_wrong_matches
RECURSIVE AnalyzeWrongMatches(_, _, _)
AnalyzeWrongMatches(acc, todo, all_matches) ==
    IF todo = <<>> \/ acc.error # ""
    THEN acc
    ELSE LET match == Head(todo)
             context_decisions ==
                 get_context_before_time(dp_decisions, match.time,
                                         FAILURE_CONTEXT_WINDOW)
         IN IF match.score < 0 /\ context_decisions # <<>>
            THEN IF TimingPatternsRaise(context_decisions)
                 THEN [acc EXCEPT !.error = "Cannot analyze timing patterns"]
                 ELSE AnalyzeWrongMatches(
                          [acc EXCEPT !.contexts = Append(@,
                               FailureContext("wrong_match", match.time, match.pitch,
                                   context_decisions, all_matches,
                                   match.line_number, <<>>))],
                          Tail(todo), all_matches)
            ELSE AnalyzeWrongMatches(acc, Tail(todo), all_matches)

\* A variant that also takes a drop of exactly two points.
SignificantDrop_Inclusive(prev_score, curr_score) ==
    prev_score - curr_score >= score_drop_threshold

\* if prev_score - curr_score > 2
SignificantDrop(prev_score, curr_score) ==
    prev_score - curr_score > score_drop_threshold

\* The keys of by_column, in the order of their first decision.
RECURSIVE ColumnsInOrder(_, _)
ColumnsInOrder(decisions, seen) ==
    IF decisions = <<>>
    THEN <<>>
    ELSE IF Head(decisions).column \in seen
         THEN ColumnsInOrder(Tail(decisions), seen)
         ELSE <<Head(decisions).column>>
              \o ColumnsInOrder(Tail(decisions), seen \cup {Head(decisions).column})

\* by_column[column] after decisions.sort(key = row)
ColumnDecisions(decisions, column) ==
    SortedBy(SelectSeq(decisions, LAMBDA d : d.column = column), "row")

\* The inner loop of _analyze_score_drops over one column, from index i
\* (1-based; the code's i is one less).
RECURSIVE ColumnScoreDrops(_, _, _)
ColumnScoreDrops(decisions, i, all_matches) ==
    IF i > Len(decisions)
    THEN <<>>
    ELSE LET context_decisions ==
                 SubSeq(decisions,
                        IF i - FAILURE_CONTEXT_WINDOW > 1
                        THEN i - FAILURE_CONTEXT_WINDOW ELSE 1,
                        i)
         IN (IF SignificantDrop(decisions[i - 1].final_value,
                                decisions[i].final_value)
             THEN <<FailureContext("score_drop", decisions[i].time,
                                   decisions[i].pitch, context_decisions,
                                   all_matches, decisions[i].line_number, <<>>)>>
             ELSE <<>>)
            \o ColumnScoreDrops(decisions, i + 1, all_matches)

\* FailureAnalyzer._analyze_score_drops
RECURSIVE ScoreDropsOf(_, _, _)
ScoreDropsOf(columns, decisions, all_matches) ==
    IF columns = <<>>
    THEN <<>>
    ELSE ColumnScoreDrops(ColumnDecisions(decisions, Head(columns)), 2, all_matches)
         \o ScoreDropsOf(Tail(columns), decisions, all_matches)

analyze_score_drops(decisions, all_matches) ==
    ScoreDropsOf(ColumnsInOrder(decisions, {}), decisions, all_matches)

RECURSIVE Flatten(_)
Flatten(lists) ==
    IF lists = <<>> THEN <<>> ELSE Head(lists) \o Flatten(Tail(lists))

RECURSIVE SumSeq(_)
SumSeq(values) ==
    IF values = <<>> THEN 0 ELSE Head(values) + SumSeq(Tail(values))

\* FailureAnalyzer._generate_summary_statistics, for a non-empty list; an
\* average is kept as its sum and its count.
generate_summary_statistics(failure_contexts) ==
    LET failure_types == FieldOf(failure_contexts, "failure_type")
        failure_times == FieldOf(failure_contexts, "failure_time")
        all_scores == Flatten(FieldOf(failure_contexts, "score_progression"))
        sizes == [i \in DOMAIN failure_contexts |->
                      Len(failure_contexts[i].context_decisions)]
    IN [failure_type_distribution |->
            [ft \in {failure_types[i] : i \in DOMAIN failure_types} |->
                 Cardinality({i \in DOMAIN failure_types : failure_types[i] = ft})],
        temporal_distribution |->
            [first_failure |-> SeqMin(failure_times),
             last_failure |-> SeqMax(failure_times),
             failure_span |-> IF Len(failure_times) > 1
                              THEN SeqMax(failure_times) - SeqMin(failure_times)
                              ELSE 0],
        score_statistics |->
            [min_score |-> SeqMin(all_scores),
             max_score |-> SeqMax(all_scores),
             avg_score |-> <<SumSeq(all_scores), Len(all_scores)>>],
        context_statistics |->
            [avg_context_size |-> <<SumSeq(sizes), Len(failure_contexts)>>]]

\* _generate_summary_statistics raises ValueError for an empty list.
SummaryStatisticsRaise(failure_contexts) == failure_contexts = <<>>

\* FailureAnalyzer._generate_recommendations, for a non-empty list; -5
\* points are -10 half points.
generate_recommendations(failure_contexts) ==
    LET failure_types == FieldOf(failure_contexts, "failure_type")
        Count(ft) == Cardinality({i \in DOMAIN failure_types : failure_types[i] = ft})
        timing_issues ==
            Flatten([i \in DOMAIN failure_contexts |->
                         failure_contexts[i].timing_analysis.issues])
        Has(issue) == \E i \in DOMAIN timing_issues : timing_issues[i] = issue
        low_scores == SelectSeq(failure_contexts,
                                LAMBDA fc : SeqMin(fc.score_progression) < 0 - 10)
    IN (IF 2 * Count("no_match") > Len(failure_types)
        THEN <<"timing constraints may be too strict">> ELSE <<>>)
       \o (IF Count("wrong_match") > 0
           THEN <<"consider adjusting scoring parameters">> ELSE <<>>)
       \o (IF Count("score_drop") > 0
           THEN <<"review dynamic programming weights">> ELSE <<>>)
       \o (IF Has("Large timing gap")
           THEN <<"consider increasing tempo tolerance">> ELSE <<>>)
       \o (IF Has("Long delay before failure")
           THEN <<"may need better windowing strategy">> ELSE <<>>)
       \o (IF 10 * Len(low_scores) > 3 * Len(failure_contexts)
           THEN <<"algorithm parameters need tuning">> ELSE <<>>)

\* _get_test_case_id raises ValueError when test_info is empty.
TestCaseIdRaises(metadata) == DOMAIN metadata.test_info = {}

\* FailureAnalyzer.analyze over the analyzer's lists and window cache: the
\* report or the exception, and the cache left behind.
analyze(cache, all_matches, all_no_matches, metadata) ==
    LET start == [contexts |-> <<>>, cache |-> cache, error |-> ""]
        after_no_matches == AnalyzeNoMatches(start, all_no_matches, all_matches)
        after_wrong_matches ==
            AnalyzeWrongMatches(after_no_matches, all_matches, all_matches)
        failure_contexts ==
            after_wrong_matches.contexts
            \o analyze_score_drops(dp_decisions, all_matches)
        raised(error, left) ==
            [error |-> error, report |-> <<>>, cache |-> left,
             logged |-> <<"Starting failure analysis">>]
    IN IF after_wrong_matches.error # ""
       THEN raised(after_wrong_matches.error, after_wrong_matches.cache)
       ELSE IF SummaryStatisticsRaise(failure_contexts)
       THEN raised("Cannot generate summary statistics",
                   after_wrong_matches.cache)
       ELSE IF TestCaseIdRaises(metadata)
       THEN raised("Test info is empty", after_wrong_matches.cache)
       ELSE [error |-> "",
             report |-> [test_case_id |-> metadata.test_info.test_case,
                         total_failures |-> Len(failure_contexts),
                         failure_contexts |-> failure_contexts,
                         summary_statistics |->
                             generate_summary_statistics(failure_contexts),
                         recommendations |->
                             generate_recommendations(failure_contexts)],
             cache |-> after_wrong_matches.cache,
             logged |-> <<"Starting failure analysis", "Found failure contexts">>]

\* after_score_time = None
NoScoreTime == [given |-> FALSE, time |-> 0]

WorkflowIdle ==
    /\ wf_skip_execution = FALSE
    /\ wf_score_time = NoScoreTime
    /\ wf_contexts = <<>>
    /\ wf_results = <<>>
    /\ wf_most_critical = <<>>
    /\ wf_focus = <<>>
    /\ wf_return = <<>>
    /\ wf_stages = <<>>
    /\ wf_pc = "idle"

AnalyzeIdle ==
    /\ an_lines = <<>>
    /\ an_matches = <<>>
    /\ an_no_matches = <<>>
    /\ an_metadata = [test_info |-> <<>>]
    /\ an_report = <<>>
    /\ an_error = ""
    /\ an_logged = <<>>
    /\ an_runs = 0
    /\ an_first = <<>>
    /\ an_pc = "idle"

RangeIdle ==
    /\ rq_items = <<>>
    /\ rq_start = 0
    /\ rq_end = 0
    /\ rq_result = <<>>
    /\ rq_pc = "idle"

(***************************************************************************)
(* Reading the flushed block back: what its lines say, without the         *)
(* dictionaries of _process_input_logs.                                    *)
(***************************************************************************)
\* Rows of the block that have a primary DP line.
DPRows(block) == {block[i].row : i \in {j \in DOMAIN block : block[j].tag = "DP"}}

\* Positions of the lines of one tag (and one row) in the block.
LinesOf(block, tag) == {i \in DOMAIN block : block[i].tag = tag}
RowLinesOf(block, tag, row) == {i \in LinesOf(block, tag) : block[i].row = row}

\* The latest position of a non-empty set of positions.
Latest(S) == CHOOSE i \in S : \A j \in S : j <= i
Earliest(S) == CHOOSE i \in S : \A j \in S : i <= j

\* The lines a log file is made of.
FlatLines ==
    {InputLine(1, 60, 75), InputLine(2, 62, 80),
     DPLine(1, 2), DPLine(1, 5), DPLine(2, 2), BadDPLine(2, "final_value"),
     VRuleLine(1, 1), VRuleLine(1, 3), VRuleLine(2, 1),
     TimingLine("t"),
     MatchLine(1, 60, 75, 2), MatchLine(1, 60, 75, 0 - 1),
     NoMatchLine(60, 75), OtherLine}

EOF == [tag |-> "EOF"]

FlattenerIdle ==
    /\ current_input_logs = <<>>
    /\ completed_entries = <<>>
    /\ stats = [total_lines |-> 0, unmatched_lines |-> 0]
    /\ warnings = 0
    /\ fl_pc = "reading"
    /\ fl_bad = 0
    /\ last_line = [tag |-> "NONE"]
    /\ flushed = FALSE
    /\ last_block = <<>>
    /\ last_emitted = <<>>

\* self._process_input_logs() returning normally on a non-empty block: the
\* records are appended and the block is cleared by the caller's next step.
FlushBlock(block) ==
    /\ flushed' = TRUE
    /\ last_block' = block
    /\ last_emitted' = process_input_logs(block)
    /\ completed_entries' = completed_entries \o process_input_logs(block)

NoFlush ==
    /\ flushed' = FALSE
    /\ UNCHANGED <<last_block, last_emitted, completed_entries>>

\* A variant that collects a line whether or not a block is open.
AddToBlock(logs, line) == Append(logs, line)

\* if self.current_input_logs: self.current_input_logs.append(line)
AddToOpenBlock(logs, line) ==
    IF logs # <<>> THEN Append(logs, line) ELSE logs

\* One iteration of the loop of parse_log_file (lines 210-222) on a line that
\* is neither blank nor a comment: _process_line with the flush it calls, and
\* the handler of lines 218-220 when the flush raises.
ProcessLine(line) ==
    /\ fl_pc = "reading"
    /\ stats.total_lines < MaxLines
    /\ last_line' = line
    /\ fl_bad' = IF ExtractRaises(line) THEN fl_bad + 1 ELSE fl_bad
    /\ UNCHANGED fl_pc
    /\ IF line.tag = "INPUT"
       THEN /\ stats' = [stats EXCEPT !.total_lines = @ + 1]
            /\ IF current_input_logs = <<>>
               THEN /\ current_input_logs' = <<line>>
                    /\ NoFlush
                    /\ UNCHANGED warnings
               ELSE IF ProcessRaises(current_input_logs)
               THEN \* the exception leaves _process_line before line 248
                    /\ UNCHANGED current_input_logs
                    /\ NoFlush
                    /\ warnings' = warnings + 1
               ELSE /\ current_input_logs' = <<line>>
                    /\ FlushBlock(current_input_logs)
                    /\ UNCHANGED warnings
       ELSE IF line.tag \in {"MATCH", "NO_MATCH"}
       THEN LET block == Append(current_input_logs, line)
            IN /\ stats' = [stats EXCEPT !.total_lines = @ + 1]
               /\ IF ProcessRaises(block)
                  THEN /\ current_input_logs' = block
                       /\ NoFlush
                       /\ warnings' = warnings + 1
                  ELSE /\ current_input_logs' = <<>>
                       /\ FlushBlock(block)
                       /\ UNCHANGED warnings
       ELSE /\ current_input_logs' = AddToOpenBlock(current_input_logs, line)
            /\ stats' =
                  [stats EXCEPT
                     !.total_lines = @ + 1,
                     !.unmatched_lines =
                        IF \E i \in DOMAIN PatternOrder :
                              PatternMatches(PatternOrder[i], line)
                        THEN @ ELSE @ + 1]
            /\ NoFlush
            /\ UNCHANGED warnings
    /\ UNCHANGED NotFlattener

\* End of file (lines 229-236): a block still open is processed, outside the
\* try of the loop; nothing is logged above INFO level.
EndOfFile ==
    /\ fl_pc = "reading"
    /\ last_line' = EOF
    /\ UNCHANGED <<stats, warnings, fl_bad>>
    /\ IF current_input_logs = <<>>
       THEN /\ fl_pc' = "done"
            /\ UNCHANGED current_input_logs
            /\ NoFlush
       ELSE IF ProcessRaises(current_input_logs)
       THEN /\ fl_pc' = "raised"
            /\ UNCHANGED current_input_logs
            /\ NoFlush
       ELSE /\ fl_pc' = "done"
            /\ current_input_logs' = <<>>
            /\ FlushBlock(current_input_logs)
    /\ UNCHANGED NotFlattener

PermIdle ==
    /\ pm_block = <<>>
    /\ pm_moved = <<>>
    /\ pm_out = <<>>
    /\ pm_out_moved = <<>>
    /\ pm_pc = "idle"

Init ==
    /\ FlattenerIdle
    /\ RangeIdle
    /\ PermIdle
    /\ ContextIdle
    /\ TwoPassIdle
    /\ AnalyzeIdle
    /\ WorkflowIdle

Next ==
    \/ \E line \in FlatLines : ProcessLine(line)
    \/ EndOfFile

Spec == Init /\ [][Next]_vars

(***************************************************************************)
(* Two blocks that differ in the position of one row-scoped detail line,   *)
(* each handed to _process_input_logs.  No two lines of a block write the  *)
(* same field: a row has at most one DP line and one VRULE line.           *)
(***************************************************************************)
BodyLines == {DPLine(1, 2), DPLine(2, 5), VRuleLine(1, 1), VRuleLine(2, 3)}

NoFieldWrittenTwice(body) ==
    \A i, j \in DOMAIN body :
        (i # j /\ body[i].tag = body[j].tag) => body[i].row # body[j].row

Bodies == {b \in SeqsUpTo(BodyLines, MaxBody) : NoFieldWrittenTwice(b)}

Outcomes == {<<>>, <<MatchLine(1, 60, 75, 2)>>, <<NoMatchLine(60, 75)>>}

\* The sequence s with its element at position i moved to position j.
MoveLine(s, i, j) ==
    LET without == SubSeq(s, 1, i - 1) \o SubSeq(s, i + 1, Len(s))
    IN SubSeq(without, 1, j - 1) \o <<s[i]>> \o SubSeq(without, j, Len(without))

InitPerm ==
    /\ \E b \in Bodies, o \in Outcomes :
          pm_block = <<InputLine(1, 60, 75)>> \o b \o o
    /\ pm_moved = <<>>
    /\ pm_out = <<>>
    /\ pm_out_moved = <<>>
    /\ pm_pc = "idle"
    /\ RangeIdle
    /\ FlattenerIdle
    /\ ContextIdle
    /\ TwoPassIdle
    /\ AnalyzeIdle
    /\ WorkflowIdle

\* Move one VRULE line to another place of the body and flatten both blocks.
FlattenBoth ==
    /\ pm_pc = "idle"
    /\ \E i \in LinesOf(pm_block, "VRULE"),
          j \in LinesOf(pm_block, "VRULE") \cup LinesOf(pm_block, "DP") :
          /\ pm_moved' = MoveLine(pm_block, i, j)
          /\ pm_out' = process_input_logs(pm_block)
          /\ pm_out_moved' = process_input_logs(MoveLine(pm_block, i, j))
    /\ pm_pc' = "done"
    /\ UNCHANGED pm_block
    /\ UNCHANGED NotPerm

NextPerm == FlattenBoth

SpecPerm == InitPerm /\ [][NextPerm]_vars

InitRange ==
    /\ rq_items \in RangeLists
    /\ rq_start = 0
    /\ rq_end = 0
    /\ rq_result = <<>>
    /\ rq_pc = "idle"
    /\ FlattenerIdle
    /\ PermIdle
    /\ ContextIdle
    /\ TwoPassIdle
    /\ AnalyzeIdle
    /\ WorkflowIdle

RangeQuery ==
    /\ \E s \in QueryTimes, e \in QueryTimes :
          /\ rq_start' = s
          /\ rq_end' = e
          /\ rq_result' = get_items_in_time_range(rq_items, s, e, "curr_time")
    /\ rq_pc' = "done"
    /\ UNCHANGED rq_items
    /\ UNCHANGED NotRange

NextRange == RangeQuery

SpecRange == InitRange /\ [][NextRange]_vars

(***************************************************************************)
(* The analyzer over one parsed log.  Every parsed event carries the       *)
(* number of its own log line, so no two events share a line number.       *)
(* Failure times 50 and 52 give the windows [0, 100] and [2, 102], which   *)
(* both round to the key (0, 100); 60 gives the key (10, 110).             *)
(***************************************************************************)
FailTimes == {50, 52, 60}
FailPitches == {60, 62}

TimingEvents ==
    {[curr_time |-> 1, timing_pass |-> FALSE],
     [curr_time |-> 50, timing_pass |-> TRUE],
     [curr_time |-> 101, timing_pass |-> FALSE]}

\* Line numbers go by kind and position.
Numbered(events, base) ==
    [i \in DOMAIN events |-> Put(events[i], "line_number", base + i)]

TimingLists ==
    {Numbered(s, 10) : s \in SeqsUpTo(TimingEvents, MaxTimingChecks)}

PitchLists(e60, e62) ==
    {Numbered(s, e60.pitch) : s \in {<<>>, <<e60>>, <<e62>>, <<e60, e62>>}}

MatchTypeLists ==
    PitchLists([pitch |-> 60, is_trill |-> FALSE], [pitch |-> 62, is_trill |-> TRUE])

HRuleLists ==
    PitchLists([pitch |-> 60, timing_pass |-> FALSE, match_type |-> "chord"],
               [pitch |-> 62, timing_pass |-> TRUE, match_type |-> "trill"])

OrnamentLists ==
    PitchLists([pitch |-> 60, ornament_type |-> "grace", credit |-> 1],
               [pitch |-> 62, ornament_type |-> "trill", credit |-> 2])

\* The cell-scoped detail lines of one DP cell, present or absent together.
CellDetail(present) ==
    IF present
    THEN [cell_decisions |-> <<[line_number |-> 4, winner |-> "horizontal",
                                updated |-> TRUE, reason |-> "match"]>>,
          score_competitions |-> <<[line_number |-> 5, current_score |-> 2,
                                    confidence |-> 1, beats_top |-> TRUE]>>,
          vertical_rules |-> <<[line_number |-> 6, result |-> 1]>>,
          matrix_states |-> <<[line_number |-> 3, window_start |-> 1]>>,
          array_neighborhoods |-> <<[line_number |-> 7, center_row |-> 1]>>,
          window_movements |-> <<[line_number |-> 8, new_start |-> 1]>>]
    ELSE [cell_decisions |-> <<>>, score_competitions |-> <<>>,
          vertical_rules |-> <<>>, matrix_states |-> <<>>,
          array_neighborhoods |-> <<>>, window_movements |-> <<>>]

\* The time of a second block, which the pitch-scoped detail lines (numbered
\* from 61) belong to: inside every window asked for, or outside all of them.
SecondBlockTimes == {60, 200}

ParsedData ==
    {[input_events |-> <<[line_number |-> 1, time |-> 50, column |-> 1, pitch |-> 60],
                         [line_number |-> 60, time |-> b, column |-> 2, pitch |-> 62]>>,
      timing_checks |-> t, match_type_analyses |-> m, horizontal_rules |-> h,
      ornament_processings |-> o,
      cell_decisions |-> CellDetail(c).cell_decisions,
      score_competitions |-> CellDetail(c).score_competitions,
      vertical_rules |-> CellDetail(c).vertical_rules,
      matrix_states |-> CellDetail(c).matrix_states,
      array_neighborhoods |-> CellDetail(c).array_neighborhoods,
      window_movements |-> CellDetail(c).window_movements] :
        t \in TimingLists, m \in MatchTypeLists, h \in HRuleLists,
        o \in OrnamentLists, c \in BOOLEAN, b \in SecondBlockTimes}

InitContext ==
    /\ \E data \in ParsedData :
          Constructed(data, <<[line_number |-> 2, time |-> 50]>>)
    /\ RangeIdle
    /\ FlattenerIdle
    /\ PermIdle
    /\ TwoPassIdle
    /\ AnalyzeIdle
    /\ WorkflowIdle

\* FailureAnalyzer._extract_comprehensive_context(failure_time, failure_pitch)
ExtractContext ==
    /\ \E failure_time \in FailTimes, failure_pitch \in FailPitches :
          LET cache_key == CacheKey(failure_time)
              r == RelevantLists(failure_time, failure_pitch)
              context == BuildContext(r)
          IN /\ cx_time' = failure_time
             /\ cx_pitch' = failure_pitch
             /\ IF cache_key \in DOMAIN time_window_cache
                THEN /\ cx_result' = filter_cached_context_for_pitch(
                                         time_window_cache[cache_key], failure_pitch)
                     /\ cx_hit' = TRUE
                     /\ UNCHANGED <<time_window_cache, cx_filler>>
                ELSE /\ cx_result' = context
                     /\ cx_hit' = FALSE
                     /\ time_window_cache' =
                            Put(time_window_cache, cache_key, CacheEntry(r, context))
                     /\ cx_filler' = Put(cx_filler, cache_key,
                                         [time |-> failure_time, pitch |-> failure_pitch])
    /\ cx_pc' = "done"
    /\ UNCHANGED <<comprehensive_data, dp_decisions, line_to_time_cache,
                   timing_checks_by_time, cell_decisions_with_time,
                   score_competitions_with_time>>
    /\ UNCHANGED NotContext

NextContext == ExtractContext

SpecContext == InitContext /\ [][NextContext]_vars

(***************************************************************************)
(* parse_log_file(log_file, failure_context_lines = K): a first pass for   *)
(* the core events, then a second pass with target_lines set.              *)
(***************************************************************************)
ParseLines ==
    {InputLine(1, 60, 75), DPLine(1, 2), VRuleLine(1, 1), TimingLine("t"),
     MatchLine(1, 60, 75, 2), NoMatchLine(60, 75), OtherLine}

InitTwoPass ==
    /\ tp_lines \in SeqsUpTo(ParseLines, MaxLogLines)
    /\ failure_context_lines \in 0..MaxK
    /\ tp_parser = LogParser(FALSE)
    /\ tp_line_num = 1
    /\ tp_result = <<>>
    /\ tp_pc = "pass1"
    /\ tp_error = ""
    /\ RangeIdle
    /\ FlattenerIdle
    /\ PermIdle
    /\ ContextIdle
    /\ AnalyzeIdle
    /\ WorkflowIdle

\* One turn of the loop of LogParser.parse, in either pass.
ParseLine ==
    /\ tp_pc \in {"pass1", "pass2"}
    /\ tp_line_num <= Len(tp_lines)
    /\ tp_parser' = parse_line(tp_parser, tp_lines[tp_line_num], tp_line_num)
    /\ tp_line_num' = tp_line_num + 1
    /\ UNCHANGED <<tp_lines, failure_context_lines, tp_result, tp_pc, tp_error>>
    /\ UNCHANGED NotTwoPass

\* The first parse() returns (or raises in _generate_summary); the failure
\* lines are collected and the second parser is made.
FinishFirstPass ==
    /\ tp_pc = "pass1"
    /\ tp_line_num > Len(tp_lines)
    /\ LET failure_lines ==
               FailureLines(ParseResult(tp_parser).no_matches, failure_context_lines)
       IN IF SummaryRaises(tp_parser) \/ failure_lines = {}
          THEN /\ tp_pc' = "raised"
               /\ tp_error' = IF SummaryRaises(tp_parser)
                               THEN "no DP decisions found"
                               ELSE "No failure lines found"
               /\ UNCHANGED <<tp_parser, tp_line_num, tp_result>>
          ELSE /\ tp_result' = ParseResult(tp_parser)
               /\ UNCHANGED tp_error
               /\ tp_parser' = [LogParser(TRUE) EXCEPT !.targeted = TRUE,
                                                       !.target_lines = failure_lines]
               /\ tp_line_num' = 1
               /\ tp_pc' = "pass2"
    /\ UNCHANGED <<tp_lines, failure_context_lines>>
    /\ UNCHANGED NotTwoPass

\* The second parse() returns; its comprehensive data is validated and
\* merged into the first pass's result.
FinishSecondPass ==
    /\ tp_pc = "pass2"
    /\ tp_line_num > Len(tp_lines)
    /\ LET comprehensive_result == ParseResult(tp_parser)
       IN IF \/ SummaryRaises(tp_parser)
             \/ TotalEntries(comprehensive_result.comprehensive_data) = 0
          THEN /\ tp_pc' = "raised"
               /\ tp_error' = IF SummaryRaises(tp_parser)
                               THEN "no DP decisions found"
                               ELSE "Second pass extracted no comprehensive data"
               /\ UNCHANGED tp_result
          ELSE /\ tp_result' =
                      [tp_result EXCEPT !.comprehensive_data =
                                            comprehensive_result.comprehensive_data]
               /\ tp_pc' = "returned"
               /\ UNCHANGED tp_error
    /\ UNCHANGED <<tp_lines, failure_context_lines, tp_parser, tp_line_num>>
    /\ UNCHANGED NotTwoPass

NextTwoPass ==
    \/ ParseLine
    \/ FinishFirstPass
    \/ FinishSecondPass

SpecTwoPass == InitTwoPass /\ [][NextTwoPass]_vars

(***************************************************************************)
(* C1: for every list sorted by its time field and every (start_time,      *)
(* end_time), the range query returns exactly the items with               *)
(* start_time <= time <= end_time, in the order of a naive linear filter   *)
(* over the same list (empty list, start > end and duplicate times         *)
(* included).                                                              *)
(***************************************************************************)
NaiveFilter(items, start_time, end_time, time_field) ==
    SelectSeq(items, LAMBDA x : start_time <= x[time_field] /\ x[time_field] <= end_time)

C1_RangeEqualsNaiveFilter ==
    rq_pc = "done" =>
        rq_result = NaiveFilter(rq_items, rq_start, rq_end, "curr_time")

\* A query over a three-item list with a duplicated time that returns both
\* duplicates and leaves the third item out.
C1_Witness ==
    /\ rq_pc = "done"
    /\ Len(rq_items) = 3
    /\ Len(rq_result) = 2
    /\ rq_result[1].curr_time = rq_result[2].curr_time
    /\ rq_result[1] # rq_result[2]

(***************************************************************************)
(* C2: a call served from the window cache, for a failure of the same      *)
(* pitch as the one that filled the entry but with a different window      *)
(* (both rounding to the same key), returns the context the extraction     *)
(* computes for that failure with the cache bypassed.                      *)
(***************************************************************************)
C2_CacheHitEqualsBypass ==
    (/\ cx_pc = "done"
     /\ cx_hit
     /\ cx_filler[CacheKey(cx_time)].pitch = cx_pitch
     /\ cx_filler[CacheKey(cx_time)].time # cx_time)
        => cx_result = FreshContext(cx_time, cx_pitch)

(***************************************************************************)
(* C3: a call served from the window cache for a failure whose pitch       *)
(* differs from the pitch of the failure that filled the entry returns, in *)
(* the pitch-scoped sections (match-type classifications, horizontal-rule  *)
(* calculations, ornament context), the events of its own pitch and none   *)
(* of the other pitch.                                                     *)
(***************************************************************************)
C3_CacheHitScopedToSecondPitch ==
    (/\ cx_pc = "done"
     /\ cx_hit
     /\ cx_filler[CacheKey(cx_time)].pitch # cx_pitch)
        => /\ cx_result.match_type_analysis.classifications =
                  OfPitch(comprehensive_data.match_type_analyses, cx_pitch)
           /\ cx_result.horizontal_rule_analysis.calculations =
                  OfPitch(comprehensive_data.horizontal_rules, cx_pitch)
           /\ cx_result.ornament_context =
                  OrnamentSection(OfPitch(comprehensive_data.ornament_processings,
                                          cx_pitch))

(***************************************************************************)
(* C4: for every block the flattener processes, exactly one record is      *)
(* emitted per distinct row that has a primary DP line in the block, the   *)
(* (input_column, dp_row) key is unique among the block's records, and no  *)
(* record is made for a row that appears only in detail lines.             *)
(***************************************************************************)
C4_OneRecordPerDPRow ==
    flushed =>
        /\ Len(last_emitted) = Cardinality(DPRows(last_block))
        /\ {last_emitted[i].dp_row : i \in DOMAIN last_emitted} = DPRows(last_block)
        /\ \A i, j \in DOMAIN last_emitted :
              i # j =>
                 <<last_emitted[i].input_column, last_emitted[i].dp_row>>
                    # <<last_emitted[j].input_column, last_emitted[j].dp_row>>

\* A flushed block with two DP lines for one row and a detail line for a row
\* that has no DP line.
C4_Witness ==
    /\ flushed
    /\ \E r \in DPRows(last_block) : Cardinality(RowLinesOf(last_block, "DP", r)) = 2
    /\ \E i \in LinesOf(last_block, "VRULE") : last_block[i].row \notin DPRows(last_block)
    /\ Len(last_emitted) = 1

(***************************************************************************)
(* C5: moving a row-scoped detail line to another position relative to the *)
(* primary DP line of its row (before or after it), with no two lines      *)
(* writing the same field, leaves the flattener's output for the block     *)
(* identical: the same records, the same field values, the same order.     *)
(***************************************************************************)
C5_DetailOrderIrrelevant ==
    pm_pc = "done" => pm_out_moved = pm_out

(***************************************************************************)
(* C6: within one block, when several lines write the same field of the    *)
(* same record (two DP lines for one row, two detail lines of one kind for *)
(* one row, two row-less lines of one kind), the emitted record holds the  *)
(* value of the line that is latest in file order.                         *)
(***************************************************************************)
C6_LastWriteWins ==
    flushed =>
        \A k \in DOMAIN last_emitted :
            LET e == last_emitted[k]
                dps == RowLinesOf(last_block, "DP", e.dp_row)
                vrs == RowLinesOf(last_block, "VRULE", e.dp_row)
                tms == LinesOf(last_block, "TIMING")
            IN /\ dps # {}
               /\ e.dp_final_value = last_block[Latest(dps)].final_value
               /\ vrs # {} => e.vrule_result = last_block[Latest(vrs)].result
               /\ tms # {} => e.timing_pass = last_block[Latest(tms)].timing_pass

\* A flushed block in which a row has two DP lines and two VRULE lines with
\* different values, and the record of that row.
C6_Witness ==
    /\ flushed
    /\ \E k \in DOMAIN last_emitted :
          LET dps == RowLinesOf(last_block, "DP", last_emitted[k].dp_row)
              vrs == RowLinesOf(last_block, "VRULE", last_emitted[k].dp_row)
          IN /\ Cardinality(dps) = 2
             /\ Cardinality(vrs) = 2
             /\ last_block[Earliest(dps)].final_value # last_block[Latest(dps)].final_value
             /\ last_block[Earliest(vrs)].result # last_block[Latest(vrs)].result

(***************************************************************************)
(* C7: when a block's terminal MATCH or NO_MATCH line arrives, the block   *)
(* is flushed at once and every record of the block carries the same       *)
(* outcome: result_type "match" with the match_row, match_pitch,           *)
(* match_perf_time and match_score of the MATCH line, or result_type       *)
(* "no_match" with the no_match_pitch and no_match_perf_time of the        *)
(* NO_MATCH line, together with the fields of the block's INPUT line.      *)
(***************************************************************************)
CarriesInput(e, block) ==
    \A i \in LinesOf(block, "INPUT") :
        /\ e.input_column = block[i].column
        /\ e.input_pitch = block[i].pitch
        /\ e.input_perf_time = block[i].perf_time

C7_OutcomeOnEveryRecord ==
    last_line.tag \in {"MATCH", "NO_MATCH"} =>
        /\ flushed
        /\ current_input_logs = <<>>
        /\ \A k \in DOMAIN last_emitted :
              LET e == last_emitted[k]
              IN /\ CarriesInput(e, last_block)
                 /\ last_line.tag = "MATCH" =>
                       /\ e.result_type = "match"
                       /\ e.match_row = last_line.row
                       /\ e.match_pitch = last_line.pitch
                       /\ e.match_perf_time = last_line.perf_time
                       /\ e.match_score = last_line.score
                 /\ last_line.tag = "NO_MATCH" =>
                       /\ e.result_type = "no_match"
                       /\ e.no_match_pitch = last_line.pitch
                       /\ e.no_match_perf_time = last_line.perf_time

(***************************************************************************)
(* C8: when end of file is reached while a block is open, the block's      *)
(* records are still flushed, each with the outcome unset (result_type     *)
(* empty, match_* and no_match_* at their defaults), and the incomplete    *)
(* block is flagged by a logged warning.                                   *)
(***************************************************************************)
OutcomeUnset(e) ==
    /\ e.result_type = ""
    /\ e.match_row = 0 /\ e.match_pitch = 0
    /\ e.match_perf_time = 0 /\ e.match_score = 0
    /\ e.no_match_pitch = 0 /\ e.no_match_perf_time = 0

C8_OpenBlockFlushedAndFlagged ==
    (last_line = EOF /\ last_block # <<>> /\ flushed) =>
        /\ \A k \in DOMAIN last_emitted : OutcomeUnset(last_emitted[k])
        /\ warnings > 0

(***************************************************************************)
(* C9: when the targeted parse with context K returns, every event of      *)
(* comprehensive_data has a line number within K of the line number of     *)
(* some NO_MATCH line of the file, and every detail line of the file       *)
(* within K of a NO_MATCH line has its event in comprehensive_data.        *)
(***************************************************************************)
NoMatchLineNumbers == LinesOf(tp_lines, "NO_MATCH")

NearFailure(n) ==
    \E f \in NoMatchLineNumbers :
        n - f <= failure_context_lines /\ f - n <= failure_context_lines

LineNumbersOf(events) == {events[i].line_number : i \in DOMAIN events}

CoreEvents(r) ==
    [input_events |-> r.comprehensive_data.input_events,
     dp_decisions |-> r.dp_decisions,
     matches |-> r.matches,
     no_matches |-> r.no_matches]

C10_CoreEventsComplete ==
    tp_pc = "returned" => CoreEvents(tp_result) = CoreEvents(FullParse(tp_lines))

(***************************************************************************)
(* C11: when the file holds no NO_MATCH line, parse_log_file never starts  *)
(* a second pass (no parser with target lines is made, no comprehensive    *)
(* event is extracted, nothing is returned), and once the first pass has   *)
(* returned its result the call ends in the error "No failure lines        *)
(* found".                                                                 *)
(***************************************************************************)
C11_NoFailureNoSecondPass ==
    NoMatchLineNumbers = {} =>
        /\ tp_pc \notin {"pass2", "returned"}
        /\ ~tp_parser.parse_comprehensive
        /\ tp_parser.target_lines = {}
        /\ TotalEntries(ParseResult(tp_parser).comprehensive_data) = 0
        /\ (tp_pc = "raised" /\ tp_parser.dp_decisions # <<>>) =>
               tp_error = "No failure lines found"

\* The call has ended on a file with DP decisions and detail lines but no
\* NO_MATCH line.
C11_Witness ==
    /\ tp_pc = "raised"
    /\ NoMatchLineNumbers = {}
    /\ LinesOf(tp_lines, "DP") # {}
    /\ LinesOf(tp_lines, "TIMING") # {}
    /\ tp_error = "No failure lines found"

(***************************************************************************)
(* FailureAnalyzer over a parsed log: the analyzer is constructed from the *)
(* result of a full parse of the log, then analyze() is called, up to      *)
(* MaxRuns times on the same analyzer.                                     *)
(***************************************************************************)
MaxAnalysisLines == 4
MaxRuns == 2

\* Decisions of a column by row, with final values of 5.0, 5.0, 2.5 and 3.0
\* points; a decision later than the failures; matches, one of them with a
\* negative score; two failures of one rounded window and different pitch; a
\* failed timing check; an ornament of the first failure's pitch.
AnalysisLines ==
    {DPLineAt(1, 1, 70, 10), DPLineAt(1, 2, 72, 10), DPLineAt(1, 3, 74, 5),
     DPLineAt(1, 3, 74, 6), DPLineAt(2, 1, 80, 10),
     MatchLine(1, 60, 75, 2), MatchLine(1, 60, 75, 0 - 1),
     NoMatchLine(60, 75), NoMatchLine(62, 76), TimingLineAt(75, "f"),
     OrnamentLine(60)}

\* parsed_data['comprehensive_data'] with the keys __init__ expects.
ComprehensiveOf(parsed) ==
    [NoData EXCEPT !.input_events = parsed.comprehensive_data.input_events,
                   !.vertical_rules = parsed.comprehensive_data.vertical_rules,
                   !.timing_checks = parsed.comprehensive_data.timing_checks,
                   !.ornament_processings =
                       parsed.comprehensive_data.ornament_processings]

\* FailureAnalyzer(parsed_data): the fields __init__ reads from the
\* dictionary the parse returned.
FailureAnalyzer(parsed) ==
    /\ Constructed(ComprehensiveOf(parsed), parsed.dp_decisions)
    /\ an_matches = parsed.matches
    /\ an_no_matches = parsed.no_matches
    /\ an_metadata = parsed.metadata

\* analyzer = FailureAnalyzer(parse_log_file(log_file)); the parse raises on
\* a log without DP decisions.
AnalyzerOfParser(parser) ==
    /\ ~SummaryRaises(parser)
    /\ FailureAnalyzer(ParseResult(parser))

InitAnalyze ==
    /\ RangeIdle
    /\ WorkflowIdle
    /\ FlattenerIdle
    /\ PermIdle
    /\ TwoPassIdle
    /\ \E header \in {<<>>, <<TestStartLine>>},
          body \in SeqsUpTo(AnalysisLines, MaxAnalysisLines) :
          /\ an_lines = header \o body
          /\ AnalyzerOfParser(ParseFrom(LogParser(TRUE), header \o body, 1))
    /\ an_report = <<>>
    /\ an_error = ""
    /\ an_logged = <<>>
    /\ an_runs = 0
    /\ an_first = <<>>
    /\ an_pc = "constructed"

\* What a call of analyze() leaves: the report or the exception, the lines
\* it logged and the window cache it filled.
AnalyzeEnds(outcome) ==
    /\ time_window_cache' = outcome.cache
    /\ an_report' = outcome.report
    /\ an_error' = outcome.error
    /\ an_logged' = outcome.logged
    /\ an_pc' = IF outcome.error = "" THEN "returned" ELSE "raised"
    /\ an_first' = IF an_runs = 0
                   THEN [report |-> outcome.report, error |-> outcome.error]
                   ELSE an_first

\* report = analyzer.analyze()
Analyze ==
    /\ an_pc # "idle"
    /\ an_runs < MaxRuns
    /\ AnalyzeEnds(analyze(time_window_cache, an_matches, an_no_matches,
                           an_metadata))
    /\ an_runs' = an_runs + 1
    /\ UNCHANGED <<an_lines, an_matches, an_no_matches, an_metadata>>
    /\ UNCHANGED <<comprehensive_data, dp_decisions, line_to_time_cache,
                   timing_checks_by_time, cell_decisions_with_time,
                   score_competitions_with_time,
                   cx_result, cx_time, cx_pitch, cx_hit, cx_filler, cx_pc>>
    /\ UNCHANGED NotAnalyze

NextAnalyze == Analyze

SpecAnalyze == InitAnalyze /\ [][NextAnalyze]_vars

\* A log without failure: it names its test case, has no NO_MATCH line, its
\* MATCH lines have scores of 0 or more and no column has a score drop.
CleanLog ==
    /\ LinesOf(an_lines, "TEST_START") # {}
    /\ LinesOf(an_lines, "NO_MATCH") = {}
    /\ \A i \in LinesOf(an_lines, "MATCH") : an_lines[i].score >= 0
    /\ LinesOf(an_lines, "MATCH") # {}
    /\ analyze_score_drops(dp_decisions, an_matches) = <<>>

\* C12: on a log whose blocks all end in a MATCH with a score of 0 or more
\* and which has no score drop, analyze() returns a FailureReport with zero
\* failure contexts instead of raising.
C12_CleanLogGivesEmptyReport ==
    (an_runs > 0 /\ CleanLog) =>
        /\ an_pc = "returned"
        /\ an_report.total_failures = 0
        /\ an_report.failure_contexts = <<>>

\* A comprehensive context none of whose sections holds an event.
AllEmptyContext(context) ==
    /\ context.timing_constraints.total_checks = 0
    /\ context.match_type_analysis.classifications = <<>>
    /\ context.horizontal_rule_analysis.calculations = <<>>
    /\ context.vertical_rule_analysis.calculations = <<>>
    /\ context.cell_decisions.decisions = <<>>
    /\ context.matrix_state.states = <<>>
    /\ context.array_neighborhoods.neighborhoods = <<>>
    /\ context.window_movements.movements = <<>>
    /\ context.score_competition.score_progression = <<>>
    /\ context.ornament_context.ornament_types = <<>>

\* C13: a no-match failure whose comprehensive context would be all empty
\* is an error; no report holds a no_match FailureContext with an all-empty
\* comprehensive context.
C13_NoAllEmptyContextInReport ==
    an_pc = "returned" =>
        \A i \in DOMAIN an_report.failure_contexts :
            an_report.failure_contexts[i].failure_type = "no_match" =>
                ~AllEmptyContext(an_report.failure_contexts[i].comprehensive_context)

\* The NO_MATCH events with no DP decision at or before their time.
WithoutContext ==
    {i \in DOMAIN an_no_matches :
        \A j \in DOMAIN dp_decisions : dp_decisions[j].time > an_no_matches[i].time}

ReportedLines ==
    IF an_pc = "returned"
    THEN {an_report.failure_contexts[i].line_number :
              i \in DOMAIN an_report.failure_contexts}
    ELSE {}

\* C14: a NO_MATCH with no decision record at or before its time gives no
\* FailureContext; it is dropped with a logged 'insufficient context' reason
\* and the run does not abort; no FailureContext has empty context_decisions.
C14_DroppedWithLoggedReason ==
    (an_runs > 0 /\ WithoutContext # {} /\ DOMAIN an_metadata.test_info # {}) =>
        /\ \A i \in WithoutContext :
               an_no_matches[i].line_number \notin ReportedLines
        /\ \E i \in DOMAIN an_logged : an_logged[i] = "insufficient context"
        /\ an_error # "Cannot generate summary statistics"
        /\ an_pc = "returned" =>
               \A i \in DOMAIN an_report.failure_contexts :
                   an_report.failure_contexts[i].context_decisions # <<>>

\* The part of it the code keeps: the dropped event is in no report, and no
\* reported context is without decisions.
DroppedEventsNotReported ==
    (an_runs > 0 /\ WithoutContext # {}) =>
        /\ \A i \in WithoutContext :
               an_no_matches[i].line_number \notin ReportedLines
        /\ an_pc = "returned" =>
               \A i \in DOMAIN an_report.failure_contexts :
                   an_report.failure_contexts[i].context_decisions # <<>>

\* The MATCH lines with a negative score that at least one DP line of an
\* earlier or equal time precedes.
NegativeMatchLines ==
    {i \in LinesOf(an_lines, "MATCH") :
        /\ an_lines[i].score < 0
        /\ \E j \in DOMAIN dp_decisions : dp_decisions[j].time <= an_lines[i].perf_time}

WrongMatchLines ==
    IF an_pc = "returned"
    THEN {an_report.failure_contexts[i].line_number :
              i \in {k \in DOMAIN an_report.failure_contexts :
                        an_report.failure_contexts[k].failure_type = "wrong_match"}}
    ELSE {}

\* C15: a MATCH line with a score below 0 and at least one preceding decision
\* is parsed as a match and classified 'wrong_match'; a MATCH with a score of
\* 0 or more is never so classified.
C15_NegativeMatchIsWrongMatch ==
    an_pc = "returned" =>
        /\ \A i \in NegativeMatchLines :
               /\ \E k \in DOMAIN an_matches : an_matches[k].line_number = i
               /\ i \in WrongMatchLines
        /\ \A i \in WrongMatchLines : an_lines[i].score < 0

\* Decision a comes before decision b of the same column when the column is
\* sorted by row (decisions of equal row keep the order of the log).
RowBefore(a, b) ==
    /\ dp_decisions[a].column = dp_decisions[b].column
    /\ \/ dp_decisions[a].row < dp_decisions[b].row
       \/ dp_decisions[a].row = dp_decisions[b].row /\ a < b

\* a is the decision next before b in its column.
RowPredecessor(a, b) ==
    /\ RowBefore(a, b)
    /\ ~\E c \in DOMAIN dp_decisions : RowBefore(a, c) /\ RowBefore(c, b)

\* The decisions whose final value is more than two points below that of
\* the decision before them in the column.
DropDecisions ==
    {b \in DOMAIN dp_decisions :
        \E a \in DOMAIN dp_decisions :
            /\ RowPredecessor(a, b)
            /\ dp_decisions[a].final_value - dp_decisions[b].final_value
                   > score_drop_threshold}

ScoreDropContexts ==
    IF an_pc = "returned"
    THEN SelectSeq(an_report.failure_contexts,
                   LAMBDA fc : fc.failure_type = "score_drop")
    ELSE <<>>

\* C16: within each column, decisions sorted by row, a 'score_drop' failure
\* is reported at a decision exactly when the final value of the decision
\* before it exceeds its own by strictly more than 2.0 points.
C16_ScoreDropExactlyAboveTwo ==
    /\ an_pc = "returned" =>
           /\ {ScoreDropContexts[i].line_number : i \in DOMAIN ScoreDropContexts}
                  = {dp_decisions[b].line_number : b \in DropDecisions}
           /\ Len(ScoreDropContexts) = Cardinality(DropDecisions)
    /\ an_error = "Cannot generate summary statistics" => DropDecisions = {}

\* Final values 5.0, 5.0, 2.5 down a column: one failure, at the third row.
C16_Witness ==
    /\ an_pc = "returned"
    /\ Len(dp_decisions) = 3
    /\ \A i \in 1..3 : dp_decisions[i].column = 1
    /\ {<<dp_decisions[i].row, dp_decisions[i].final_value>> : i \in 1..3}
           = {<<1, 10>>, <<2, 10>>, <<3, 5>>}
    /\ Len(ScoreDropContexts) = 1
    /\ ScoreDropContexts[1].score_progression = <<10, 10, 5>>

\* Final values 5.0, 5.0, 3.0: a drop of exactly two points, with another
\* failure in the log so that analyze() returns.
C16_BoundaryReached ==
    /\ an_pc = "returned"
    /\ \E a, b \in DOMAIN dp_decisions :
           /\ RowPredecessor(a, b)
           /\ dp_decisions[a].final_value - dp_decisions[b].final_value
                  = score_drop_threshold

\* C17: a second analyze() on the same analyzer, its window cache filled by
\* the first, ends as the first did: the same exception, or a report with
\* identical summary statistics and the same sequence of failure contexts.
C17_SecondRunSameReport ==
    an_runs = 2 =>
        /\ an_error = an_first.error
        /\ an_error = "" =>
               /\ an_report.summary_statistics = an_first.report.summary_statistics
               /\ an_report.failure_contexts = an_first.report.failure_contexts
               /\ an_report.recommendations = an_first.report.recommendations

\* Two runs have returned, the second with its no-match context served from
\* the window cache the first run filled, ornaments included.
C17_Witness ==
    /\ an_runs = 2
    /\ an_pc = "returned"
    /\ DOMAIN time_window_cache # {}
    /\ \E i \in DOMAIN an_report.failure_contexts :
           /\ an_report.failure_contexts[i].failure_type = "no_match"
           /\ an_report.failure_contexts[i].comprehensive_context
                  .ornament_context.has_ornaments

\* C18: when a field of a line fails its coercion, the parse ends in an
\* error (naming the line and the field); the line is never skipped or
\* given a default.  For LogFlattener.parse_log_file: a parse that has read
\* such a line does not return normally.
C18_CoercionFailureEndsParse ==
    fl_bad > 0 => fl_pc # "done"

\* No pattern of LOG_PATTERNS matches the line.
NoGrammar(line) ==
    ~\E i \in DOMAIN PatternOrder : PatternMatches(PatternOrder[i], line)

\* The step is _process_line on the given kind of line.
ProcessedLine(tags) ==
    /\ stats'.total_lines = stats.total_lines + 1
    /\ last_line'.tag \in tags

\* C19: a non-blank line that matches no declared grammar is ignored and
\* counted: the unmatched-line counter goes up by exactly one, no record is
\* emitted or changed, and parsing continues with the next line.
C19_UnmatchedLineIgnoredAndCounted ==
    [][(ProcessedLine({"INPUT", "DP", "VRULE", "TIMING", "MATCH", "NO_MATCH",
                       "OTHER"})
        /\ NoGrammar(last_line')) =>
           /\ stats'.unmatched_lines = stats.unmatched_lines + 1
           /\ completed_entries' = completed_entries
           /\ fl_pc' = "reading"]_vars

\* The part of it the code keeps: a line of no grammar that does not begin
\* like a block start or a block end is counted and emits nothing,
UnmatchedOtherLineCounted ==
    [][(ProcessedLine({"OTHER"}) /\ NoGrammar(last_line')) =>
           /\ stats'.unmatched_lines = stats.unmatched_lines + 1
           /\ completed_entries' = completed_entries
           /\ fl_pc' = "reading"]_vars

\* and the records of a block are those of the block without such lines.
UnmatchedOtherLineLeavesRecords ==
    flushed =>
        last_emitted =
            process_input_logs(SelectSeq(last_block, LAMBDA l : l.tag # "OTHER"))

\* The columns of each detail group, and the zero value of every column.
VRuleColumns == {"vrule_result"}
TimingColumns == {"timing_prev_cell_time", "timing_curr_perf_time", "timing_pass"}
ZeroOf(column) == IF column = "timing_pass" THEN "" ELSE 0

\* The columns of the detail groups no line of the block belongs to.
UnobservedColumns(block) ==
    (IF LinesOf(block, "VRULE") = {} THEN VRuleColumns ELSE {})
    \cup (IF LinesOf(block, "TIMING") = {} THEN TimingColumns ELSE {})

\* C20: in every flattened record, each numeric or flag column of a detail
\* group not observed in the record's block holds the zero of its type, and
\* each such string column the empty string.
C20_UnobservedDetailIsZero ==
    flushed =>
        \A i \in DOMAIN last_emitted :
            \A column \in UnobservedColumns(last_block) :
                last_emitted[i][column] = ZeroOf(column)

\* What the code keeps: such a column holds the default of the dataclass.
UnobservedDetailIsDefault ==
    flushed =>
        \A i \in DOMAIN last_emitted :
            \A column \in UnobservedColumns(last_block) :
                last_emitted[i][column] = FlattenedLogEntry[column]

\* The line numbers of the events of an index.
IndexedLines(index) == {index[i].line_number : i \in DOMAIN index}

\* The index is in the order of its resolved times.
TimeSorted(index) ==
    \A i, j \in DOMAIN index : i < j => index[i].cached_time <= index[j].cached_time

\* C21: once the indices are built, every cell-decision and score-competition
\* event of the comprehensive data is in its time-sorted index with a resolved
\* time; none is left out because its own line number is not a key of the
\* line-to-time table.
C21_EveryDetailEventIndexed ==
    /\ IndexedLines(cell_decisions_with_time)
           = LineNumbersOf(comprehensive_data.cell_decisions)
    /\ IndexedLines(score_competitions_with_time)
           = LineNumbersOf(comprehensive_data.score_competitions)
    /\ TimeSorted(cell_decisions_with_time)
    /\ TimeSorted(score_competitions_with_time)

\* What the code keeps: an index holds the events whose own line number is a
\* key of the table, in the order of the times found there.
IndexHoldsKeyedEvents ==
    /\ IndexedLines(cell_decisions_with_time)
           = LineNumbersOf(comprehensive_data.cell_decisions)
                 \cap DOMAIN line_to_time_cache
    /\ IndexedLines(score_competitions_with_time)
           = LineNumbersOf(comprehensive_data.score_competitions)
                 \cap DOMAIN line_to_time_cache
    /\ TimeSorted(cell_decisions_with_time)
    /\ TimeSorted(score_competitions_with_time)

\* The time of the block-start or row-primary event a line belongs to: that
\* of the latest INPUT or DP line at or before it.
BlockTime(line_number) ==
    LET starts == {n \in DOMAIN line_to_time_cache : n <= line_number}
    IN line_to_time_cache[Latest(starts)][1]

InWindow(t) == cx_time - time_window <= t /\ t <= cx_time + time_window

AllInWindow(events) ==
    \A i \in DOMAIN events : InWindow(BlockTime(events[i].line_number))

AllOfPitch(events) == \A i \in DOMAIN events : events[i].pitch = cx_pitch

\* C22: every event in any section of a freshly computed context has a
\* resolved time within 1.0 s of the failure time, and every event of the
\* pitch-scoped sections (match types, horizontal rules, ornaments) also has
\* the failing pitch.
C22_FreshContextInWindowAndPitch ==
    (cx_pc = "done" /\ ~cx_hit) =>
        LET ornaments == RelevantLists(cx_time, cx_pitch).ornaments
        IN /\ \A i \in DOMAIN cx_result.timing_constraints.failed_checks :
                  InWindow(cx_result.timing_constraints.failed_checks[i].curr_time)
           /\ \A i \in DOMAIN cx_result.timing_constraints.passed_checks :
                  InWindow(cx_result.timing_constraints.passed_checks[i].curr_time)
           /\ AllInWindow(cx_result.cell_decisions.decisions)
           /\ AllInWindow(cx_result.vertical_rule_analysis.calculations)
           /\ AllInWindow(cx_result.matrix_state.states)
           /\ AllInWindow(cx_result.array_neighborhoods.neighborhoods)
           /\ AllInWindow(cx_result.window_movements.movements)
           /\ AllInWindow(cx_result.match_type_analysis.classifications)
           /\ AllInWindow(cx_result.horizontal_rule_analysis.calculations)
           /\ AllInWindow(ornaments)
           /\ AllOfPitch(cx_result.match_type_analysis.classifications)
           /\ AllOfPitch(cx_result.horizontal_rule_analysis.calculations)
           /\ AllOfPitch(ornaments)

\* What the code keeps: the time-scoped sections are within the window and
\* the pitch-scoped sections are of the failing pitch.
FreshContextScoped ==
    (cx_pc = "done" /\ ~cx_hit) =>
        /\ \A i \in DOMAIN cx_result.timing_constraints.failed_checks :
               InWindow(cx_result.timing_constraints.failed_checks[i].curr_time)
        /\ \A i \in DOMAIN cx_result.timing_constraints.passed_checks :
               InWindow(cx_result.timing_constraints.passed_checks[i].curr_time)
        /\ AllInWindow(cx_result.cell_decisions.decisions)
        /\ AllInWindow(cx_result.vertical_rule_analysis.calculations)
        /\ AllInWindow(cx_result.matrix_state.states)
        /\ AllInWindow(cx_result.array_neighborhoods.neighborhoods)
        /\ AllInWindow(cx_result.window_movements.movements)
        /\ AllOfPitch(cx_result.match_type_analysis.classifications)
        /\ AllOfPitch(cx_result.horizontal_rule_analysis.calculations)

\* C30: in every context returned, fresh or from the window cache,
\* algorithmic_insights agrees with the sections beside it:
\* ornament_interference exactly when ornament_context.has_ornaments, and
\* likely_timing_issue exactly when timing_constraints.failed_checks is not
\* empty.
C30_InsightsAgreeWithSections ==
    cx_pc = "done" =>
        /\ cx_result.algorithmic_insights.ornament_interference
               <=> cx_result.ornament_context.has_ornaments
        /\ cx_result.algorithmic_insights.likely_timing_issue
               <=> cx_result.timing_constraints.failed_checks # <<>>

\* What the code keeps: a fresh context agrees, and a cached one agrees on
\* the timing side.
InsightsAgreeWhenFresh ==
    cx_pc = "done" =>
        /\ ~cx_hit => (cx_result.algorithmic_insights.ornament_interference
                          <=> cx_result.ornament_context.has_ornaments)
        /\ cx_result.algorithmic_insights.likely_timing_issue
               <=> cx_result.timing_constraints.failed_checks # <<>>

\* The NO_MATCH events with exactly one DP decision at or before their time.
WithOneDecision ==
    {i \in DOMAIN an_no_matches :
        Cardinality({j \in DOMAIN dp_decisions :
                         dp_decisions[j].time <= an_no_matches[i].time}) = 1}

\* C24: a failure with exactly one decision record at or before its time
\* still yields a FailureContext, and analysing it does not abort the
\* analysis.
C24_OneDecisionIsEnoughContext ==
    (an_runs > 0 /\ WithOneDecision # {} /\ DOMAIN an_metadata.test_info # {}) =>
        /\ an_pc = "returned"
        /\ \A i \in WithOneDecision :
               an_no_matches[i].line_number \in ReportedLines


(***************************************************************************)
(* DebugWorkflow.run_complete_analysis and the choice of the most critical *)
(* failure.  The test run, the files and the report writer are the         *)
(* environment: each stage draws its outcome when it runs.                 *)
(***************************************************************************)
MaxContexts == 3
ContextTimes == {60, 75, 90}
FailureTypes == {"no_match", "wrong_match", "score_drop"}

\* The lists of failure contexts a report can hold; line_number tells
\* apart two contexts of one type and time.
ContextLists ==
    {[i \in DOMAIN picks |-> [failure_type |-> picks[i][1],
                              failure_time |-> picks[i][2],
                              line_number |-> i]] :
        picks \in SeqsUpTo(FailureTypes \X ContextTimes, MaxContexts)}

ScoreTimes == {NoScoreTime} \cup {[given |-> TRUE, time |-> t] : t \in ContextTimes}

\* priority_order of both selection methods
priority_order_reversed == <<"score_drop", "wrong_match", "no_match">>
priority_order == <<"no_match", "wrong_match", "score_drop">>

\* [fc for fc in failure_contexts if fc.failure_time >= after_score_time]
CandidateFailures(failure_contexts, after_score_time) ==
    IF after_score_time.given
    THEN SelectSeq(failure_contexts,
                   LAMBDA fc : fc.failure_time >= after_score_time.time)
    ELSE failure_contexts

\* min(failures_of_type, key=lambda fc: fc.failure_time): the first of the
\* list among those of the least time.
EarliestFailure(failures_of_type) ==
    LET least == SeqMin(FieldOf(failures_of_type, "failure_time"))
        first == CHOOSE i \in DOMAIN failures_of_type :
                     /\ failures_of_type[i].failure_time = least
                     /\ \A j \in 1..(i - 1) :
                            failures_of_type[j].failure_time # least
    IN failures_of_type[first]

\* The loop over priority_order from its k-th entry on; <<>> when no
\* candidate has one of the remaining types.
RECURSIVE FirstByPriority(_, _)
FirstByPriority(candidate_failures, k) ==
    IF k > Len(priority_order)
    THEN <<>>
    ELSE LET failures_of_type ==
                 SelectSeq(candidate_failures,
                           LAMBDA fc : fc.failure_type = priority_order[k])
         IN IF failures_of_type # <<>>
            THEN EarliestFailure(failures_of_type)
            ELSE FirstByPriority(candidate_failures, k + 1)

\* FailureAnalyzer.get_most_critical_failure over the contexts of the
\* report analyze() returned.
get_most_critical_failure(failure_contexts, after_score_time) ==
    LET candidate_failures == CandidateFailures(failure_contexts, after_score_time)
        selected == FirstByPriority(candidate_failures, 1)
    IN IF failure_contexts = <<>>
       THEN [error |-> "No failure contexts found", selected |-> <<>>]
       ELSE IF candidate_failures = <<>>
       THEN [error |-> "No failures found after score time", selected |-> <<>>]
       ELSE IF selected # <<>>
       THEN [error |-> "", selected |-> selected]
       ELSE [error |-> "", selected |-> candidate_failures[1]]

\* DebugWorkflow._get_most_critical_failure
DebugWorkflow_get_most_critical_failure(failure_contexts, after_score_time) ==
    LET candidate_failures == CandidateFailures(failure_contexts, after_score_time)
        selected == FirstByPriority(candidate_failures, 1)
    IN IF failure_contexts = <<>>
       THEN [error |-> "No failure contexts provided", selected |-> <<>>]
       ELSE IF candidate_failures = <<>>
       THEN [error |-> "No failures found after score time", selected |-> <<>>]
       ELSE IF selected # <<>>
       THEN [error |-> "", selected |-> selected]
       ELSE [error |-> "No failures found with expected types",
             selected |-> <<>>]

\* The keys of self.results in the order the stages set them.
StageOrder == <<"execution", "parsing", "failure_analysis", "ai_analysis">>

\* self.results[stage] = stage_results
WithStage(results, stage, stage_results) ==
    [k \in DOMAIN results \cup {stage} |->
        IF k = stage THEN stage_results ELSE results[k]]

\* The except branch of run_complete_analysis: the dictionary returned
\* when a stage raised, over self.results as the stage left it.
WorkflowFailed(results, error) ==
    [workflow_metadata |-> [success |-> FALSE, error |-> error],
     results |-> results,
     summary |-> [error |-> error]]

\* _create_summary and the return of a run all of whose stages passed.
WorkflowSucceeded(results) ==
    [workflow_metadata |-> [success |-> TRUE, error |-> ""],
     results |-> results,
     summary |-> [steps_completed |->
                      SelectSeq(StageOrder, LAMBDA k : k \in DOMAIN results),
                  success |-> TRUE]]

\* A stage ends: with the next stage to come, or with the run returned.
StageEnds(results, error, next_pc) ==
    /\ wf_results' = results
    /\ wf_return' = IF error = "" THEN wf_return ELSE WorkflowFailed(results, error)
    /\ wf_pc' = IF error = "" THEN next_pc ELSE "returned"

InitWorkflow ==
    /\ RangeIdle
    /\ FlattenerIdle
    /\ PermIdle
    /\ ContextIdle
    /\ TwoPassIdle
    /\ AnalyzeIdle
    /\ wf_skip_execution \in BOOLEAN
    /\ wf_score_time \in ScoreTimes
    /\ wf_contexts \in ContextLists
    /\ wf_results = <<>>
    /\ wf_most_critical = <<>>
    /\ wf_focus = <<>>
    /\ wf_return = <<>>
    /\ wf_stages = <<>>
    /\ wf_pc = "start"

\* Step 1: _find_existing_log, or _execute_test
ExecuteStage ==
    /\ wf_pc = "start"
    /\ wf_stages' = Append(wf_stages, "execution")
    /\ \E log_found, success, timeout, log_exists \in BOOLEAN :
          IF wf_skip_execution
          THEN IF ~log_found
               THEN StageEnds(wf_results, "No existing log found", "executed")
               ELSE StageEnds(WithStage(wf_results, "execution", [skipped |-> TRUE]),
                              "", "executed")
          ELSE LET results == WithStage(wf_results, "execution",
                                        [success |-> success, timeout |-> timeout])
               IN IF ~success /\ ~timeout
                  THEN StageEnds(results, "Test execution failed", "executed")
                  ELSE IF ~log_exists
                  THEN StageEnds(results, "Log file not created", "executed")
                  ELSE StageEnds(results, "", "executed")
    /\ UNCHANGED <<wf_skip_execution, wf_score_time, wf_contexts,
                   wf_most_critical, wf_focus>>
    /\ UNCHANGED NotWorkflow

\* Step 2: _parse_log
ParseStage ==
    /\ wf_pc = "executed"
    /\ wf_stages' = Append(wf_stages, "parsing")
    /\ \E parse_raises, csv_exists \in BOOLEAN, dp_entries \in {0, 2} :
          IF parse_raises
          THEN StageEnds(wf_results, "parse_log_file raised", "parsed")
          ELSE IF dp_entries = 0
          THEN StageEnds(wf_results, "No DP entries found in log", "parsed")
          ELSE IF ~csv_exists
          THEN StageEnds(WithStage(wf_results, "parsing",
                                   [dp_entries |-> dp_entries, flattened_csv |-> FALSE]),
                         "CSV file generation failed", "parsed")
          ELSE StageEnds(WithStage(wf_results, "parsing",
                                   [dp_entries |-> dp_entries, flattened_csv |-> TRUE]),
                         "", "parsed")
    /\ UNCHANGED <<wf_skip_execution, wf_score_time, wf_contexts,
                   wf_most_critical, wf_focus>>
    /\ UNCHANGED NotWorkflow

\* Step 3: _analyze_failures.  analyze() raises when it finds no context
\* (generate_summary_statistics), so the branch for an empty report is
\* never taken; it may raise as well while it builds the contexts.
AnalyzeStage ==
    /\ wf_pc = "parsed"
    /\ wf_stages' = Append(wf_stages, "failure_analysis")
    /\ \E comprehensive_empty, timing_raises \in BOOLEAN :
          LET critical == get_most_critical_failure(wf_contexts, NoScoreTime)
              stays(error) ==
                  /\ StageEnds(wf_results, error, "analyzed")
                  /\ wf_most_critical' = wf_most_critical
          IN IF comprehensive_empty
             THEN stays("Parsed data has empty comprehensive_data")
             ELSE IF timing_raises
             THEN stays("Cannot analyze timing patterns")
             ELSE IF SummaryStatisticsRaise(wf_contexts)
             THEN stays("Cannot generate summary statistics")
             ELSE IF critical.error # ""
             THEN stays(critical.error)
             ELSE /\ StageEnds(WithStage(wf_results, "failure_analysis",
                                         [total_failures |-> Len(wf_contexts),
                                          most_critical |-> critical.selected]),
                               "", "analyzed")
                  /\ wf_most_critical' = critical.selected
    /\ UNCHANGED <<wf_skip_execution, wf_score_time, wf_contexts, wf_focus>>
    /\ UNCHANGED NotWorkflow

\* Step 4: _generate_ai_analysis.  Every context of a report carries a
\* comprehensive context with all its keys, so the two checks on it pass.
AIAnalysisStage ==
    /\ wf_pc = "analyzed"
    /\ wf_stages' = Append(wf_stages, "ai_analysis")
    /\ \E report_saved \in BOOLEAN :
          LET focus == DebugWorkflow_get_most_critical_failure(wf_contexts,
                                                               wf_score_time)
          IN IF focus.error # ""
             THEN /\ StageEnds(wf_results, focus.error, "ai_done")
                  /\ wf_focus' = wf_focus
             ELSE IF ~report_saved
             THEN /\ StageEnds(wf_results, "save_json raised", "ai_done")
                  /\ wf_focus' = focus.selected
             ELSE /\ StageEnds(WithStage(wf_results, "ai_analysis",
                                         [prompt_generated |-> TRUE,
                                          focus_context |->
                                              focus.selected.failure_type]),
                               "", "ai_done")
                  /\ wf_focus' = focus.selected
    /\ UNCHANGED <<wf_skip_execution, wf_score_time, wf_contexts,
                   wf_most_critical>>
    /\ UNCHANGED NotWorkflow

\* Step 5: _create_summary and the return
SummaryStage ==
    /\ wf_pc = "ai_done"
    /\ wf_return' = WorkflowSucceeded(wf_results)
    /\ wf_pc' = "returned"
    /\ UNCHANGED <<wf_skip_execution, wf_score_time, wf_contexts, wf_results,
                   wf_most_critical, wf_focus, wf_stages>>
    /\ UNCHANGED NotWorkflow

NextWorkflow ==
    \/ ExecuteStage
    \/ ParseStage
    \/ AnalyzeStage
    \/ AIAnalysisStage
    \/ SummaryStage

SpecWorkflow == InitWorkflow /\ [][NextWorkflow]_vars


\* The contexts a selection chooses among: all of them, or those at or
\* after the score time.
Candidates(after_score_time) ==
    {wf_contexts[i] : i \in
        {j \in DOMAIN wf_contexts :
            after_score_time.given =>
                wf_contexts[j].failure_time >= after_score_time.time}}

\* no_match before wrong_match before score_drop
Criticality(failure_type) ==
    CASE failure_type = "no_match" -> 1
      [] failure_type = "wrong_match" -> 2
      [] failure_type = "score_drop" -> 3

\* selected is a candidate of the most critical type present and no
\* candidate of that type is earlier.
MostCriticalAmong(selected, candidates) ==
    /\ selected \in candidates
    /\ \A fc \in candidates :
           \/ Criticality(selected.failure_type) < Criticality(fc.failure_type)
           \/ /\ selected.failure_type = fc.failure_type
              /\ selected.failure_time <= fc.failure_time

\* C26: the most critical failure selected from a non-empty set of failure
\* contexts, restricted to failure_time >= after_score_time when one is
\* given, is the earliest no_match if there is one, otherwise the earliest
\* wrong_match, otherwise the earliest score_drop; an empty candidate set
\* is an error and nothing is selected.
C26_MostCriticalByTypeThenTime ==
    /\ "failure_analysis" \in DOMAIN wf_results =>
           MostCriticalAmong(wf_most_critical, Candidates(NoScoreTime))
    /\ (Len(wf_stages) = 4 /\ Candidates(wf_score_time) # {}) =>
           MostCriticalAmong(wf_focus, Candidates(wf_score_time))
    /\ (Len(wf_stages) = 4 /\ Candidates(wf_score_time) = {}) =>
           /\ wf_focus = <<>>
           /\ wf_pc = "returned"
           /\ wf_return.workflow_metadata.error = "No failures found after score time"
    /\ (Len(wf_stages) >= 3 /\ wf_contexts = <<>>) =>
           /\ wf_most_critical = <<>>
           /\ wf_pc = "returned"
           /\ ~wf_return.workflow_metadata.success

\* A no_match is selected although a score_drop candidate is earlier and
\* an earlier no_match lies before the score time.
C26_Witness ==
    /\ wf_focus # <<>>
    /\ wf_score_time.given
    /\ wf_focus.failure_type = "no_match"
    /\ \E fc \in Candidates(wf_score_time) :
           fc.failure_type = "score_drop" /\ fc.failure_time < wf_focus.failure_time
    /\ \E i \in DOMAIN wf_contexts :
           /\ wf_contexts[i].failure_type = "no_match"
           /\ wf_contexts[i].failure_time < wf_score_time.time

\* The score-time restriction leaves no candidate and the run fails.
C26_EmptyCandidatesReached ==
    /\ Len(wf_stages) = 4
    /\ Candidates(wf_score_time) = {}


\* The run returned to its caller with success = false.
WorkflowRunFailed ==
    wf_pc = "returned" /\ ~wf_return.workflow_metadata.success

\* C23: the stages of run_complete_analysis run in the order execution,
\* parsing, failure analysis, AI analysis; when a stage fails the run ends
\* with success = false and an error description, no later stage is
\* executed, and no stage results of that run are handed to the caller.
C23_FailedRunEmitsNoStageResults ==
    /\ wf_stages = SubSeq(StageOrder, 1, Len(wf_stages))
    /\ WorkflowRunFailed =>
           /\ wf_return.workflow_metadata.error # ""
           /\ DOMAIN wf_return.results = {}

\* The stages run in order, a failed run carries an error description and
\* the results of no stage later than the one that failed.
FailedRunStopsInOrder ==
    /\ wf_stages = SubSeq(StageOrder, 1, Len(wf_stages))
    /\ WorkflowRunFailed =>
           /\ wf_return.workflow_metadata.error # ""
           /\ wf_return.summary.error = wf_return.workflow_metadata.error
           /\ \A k \in DOMAIN wf_return.results :
                  \E i \in 1..Len(wf_stages) : wf_stages[i] = k
    /\ (wf_pc = "returned" /\ wf_return.workflow_metadata.success) =>
           /\ wf_stages = StageOrder
           /\ DOMAIN wf_return.results = {StageOrder[i] : i \in 1..4}


\* C27: after the per-line handler has logged and skipped an exception the
\* flattener recovers: the next INPUT line starts a fresh block (and so the
\* well-formed blocks that follow are emitted).
C27_NextInputStartsFreshBlock ==
    (warnings > 0 /\ last_line.tag = "INPUT") =>
        current_input_logs = <<last_line>>

\* Once a flush has raised, the block that raised stays open for the rest
\* of the file and nothing more is emitted.
RaisingBlockStaysOpen ==
    [][warnings > 0 =>
           /\ ProcessRaises(current_input_logs)
           /\ ProcessRaises(current_input_logs')
           /\ completed_entries' = completed_entries]_vars


DetailLines ==
    {InputLine(1, 60, 75), DPLine(1, 2), DPLine(2, 2),
     TimingLine("t"), TimingLine("f"),
     MatchExplainLine(FALSE), MatchExplainLine(TRUE),
     NoMatchExplainLine(FALSE), NoMatchExplainLine(TRUE),
     DecisionExplainLine(1),
     TimingExplainLine("t"), TimingExplainLine("f"),
     OrnamentExplainLine("trill"),
     MatchLine(1, 60, 75, 2)}

NextDetail ==
    \/ \E line \in DetailLines : ProcessLine(line)
    \/ EndOfFile

SpecDetail == Init /\ [][NextDetail]_vars

\* The explanation kinds: the tag of the line, and the log type and the
\* column named after it.
ExplainTags ==
    {"MATCH_EXPLAIN", "NO_MATCH_EXPLAIN", "DECISION_EXPLAIN", "TIMING_EXPLAIN",
     "ORNAMENT_EXPLAIN"}
ExplainKind(tag) ==
    CASE tag = "MATCH_EXPLAIN" -> "match_explanation"
      [] tag = "NO_MATCH_EXPLAIN" -> "no_match_explanation"
      [] tag = "DECISION_EXPLAIN" -> "decision_explanation"
      [] tag = "TIMING_EXPLAIN" -> "timing_explanation"
      [] tag = "ORNAMENT_EXPLAIN" -> "ornament_explanation"

\* C25: each of the five explanation kinds is classified by
\* _parse_single_line as its own kind, and inside a block the explanation
\* column of that kind is populated in the block's records, without
\* raising.
C25_ExplanationClassifiedAndPopulated ==
    /\ last_line.tag \in ExplainTags =>
           /\ ~ExtractRaises(last_line)
           /\ parse_single_line(last_line).log_type = ExplainKind(last_line.tag)
    /\ warnings = 0
    /\ fl_pc # "raised"
    /\ flushed =>
           \A i \in DOMAIN last_block :
               last_block[i].tag \in ExplainTags =>
                   \A j \in DOMAIN last_emitted :
                       last_emitted[j][ExplainKind(last_block[i].tag)] # <<>>

\* What holds: the three kinds whose pattern and unpacking agree are
\* classified and populate their column in every record of the block.
AgreeingTags == {"DECISION_EXPLAIN", "TIMING_EXPLAIN", "ORNAMENT_EXPLAIN"}
AgreeingExplanationsPopulated ==
    /\ last_line.tag \in AgreeingTags =>
           /\ ~ExtractRaises(last_line)
           /\ parse_single_line(last_line).log_type = ExplainKind(last_line.tag)
    /\ flushed =>
           \A i \in DOMAIN last_block :
               last_block[i].tag \in AgreeingTags =>
                   \A j \in DOMAIN last_emitted :
                       last_emitted[j][ExplainKind(last_block[i].tag)] # <<>>


\* The row-less detail kinds of the file: the tag of the line and the
\* columns it writes.
SharedTags == {"TIMING", "TIMING_EXPLAIN", "ORNAMENT_EXPLAIN"}

\* The last line of the block with the given tag.
LastWithTag(block, tag) ==
    LET at == {i \in DOMAIN block : block[i].tag = tag}
    IN block[CHOOSE i \in at : \A j \in at : j <= i]

\* The record carries the values of the row-less line.
CarriesShared(entry, line) ==
    CASE line.tag = "TIMING" ->
            /\ entry.timing_prev_cell_time = line.prev_cell_time
            /\ entry.timing_curr_perf_time = line.curr_perf_time
            /\ entry.timing_pass = line.timing_pass
      [] line.tag = "TIMING_EXPLAIN" ->
            entry.timing_explanation =
                <<"Pitch", line.pitch, "timing", line.reason, line.pass>>
      [] line.tag = "ORNAMENT_EXPLAIN" ->
            entry.ornament_explanation =
                <<"Pitch", line.pitch, "ornament", line.type>>

====
